---- MODULE Spec2Model ----
(***************************************************************************)
(* Model of wilkmaciej/xml-streamer: the streaming parser (navigator.go,   *)
(* type Parser), the pooled node representation (element.go) and the       *)
(* producer/consumer channel between them.                                 *)
(*                                                                         *)
(* Pointers are addresses: elements live at 1..MaxElems, content nodes at  *)
(* 1..MaxContent, 0 is nil.  A sync.Pool is a bag of addresses; Get takes  *)
(* any pooled address or makes a new object (sync.Pool may miss or drop).  *)
(***************************************************************************)
EXTENDS Integers, Sequences, FiniteSets, TLC

\* ------------------------------------------------------------------ bounds
MaxEvents == 3        \* lexical events the source yields before its end
MaxElems == 3         \* XMLElement objects ever made by xmlElementPool.New
MaxContent == 3       \* XMLContentNode objects ever made by the pool's New

\* ------------------------------------------------------- program constants
DefaultBufferSize == 8
CDataMinLen == 12
CDataPrefixLen == 9
CDataSuffixLen == 3
CommentMinLen == 7
CommentPrefixLen == 4
CommentSuffixLen == 3

\* names are byte strings, written as sequences of one-character strings
Item == <<"i", "t", "e", "m">>
Root == <<"r", "o", "o", "t">>
Names == {Item, Root}
BufferSizes == {0, 1}
CapSizes == {-1, 0, 1, 2}
TargetSets == {{}, {Item}, Names}
Addr == 1..MaxElems
CAddr == 1..MaxContent
TextNode == "text"
CommentNode == "comment"

VARIABLES
  streamNames,   \* Parser.streamNames (nil and empty are both {})
  bufferSize,    \* Parser.bufferSize
  givenSize,     \* history: the bufferSize argument NewParser was called with
  releasing,     \* the Release calls in progress, each with its work-list
  once,          \* Parser.once has run
  ch,            \* Parser.ch: 0 is nil, else the identity of the channel made
  chanBuf,       \* the channel's buffer: elements sent and not yet received
  chanClosed,    \* how many times close(p.ch) ran
  tasks,         \* parse goroutines started
  cancelled,     \* p.ctx.Err() != nil
  pc,            \* the parse goroutine: idle, loop, send, ret, done
  stack,         \* parseState.stack
  depth,         \* parseState.depth
  pending,       \* the element of the send in progress (pc = send)
  srcLen,        \* the source: lexical events it yields before its end
  pos,           \* events read from the source
  stopCause,     \* why the loop broke: none, eof, err, cancel
  elems,         \* the XMLElement objects, by address
  cnodes,        \* the XMLContentNode objects, by address
  xmlElementPool,      \* bag of pooled element addresses
  xmlContentNodePool,  \* bag of pooled content node addresses
  madeElems,     \* objects xmlElementPool.New has made
  madeContent,   \* objects xmlContentNodePool.New has made
  returned,      \* every channel identity Stream() has returned
  calls,         \* history: calls of Stream() so far, counted up to two
  nextSer,       \* history: serial number of the next start tag
  gstack,        \* history: serial numbers of the open elements (as stack)
  gparent,       \* history: per serial, the serial of the enclosing open tag
  gname,         \* history: per serial, the name in the start tag
  gkids,         \* history: per serial, the events between its tags, raw
  gtag,          \* history: per serial, the start tag as the document has it
  gptr,          \* history: per serial, the address acquired for the element
  closeLog,      \* history: the serials closed (end tag or self-closing), in order
  recvLog,       \* history: every receive, in order, and whether released
  sentAfterCancel, \* history: sends completed after the cancellation signal
  strCalls,      \* history: the calls of ElementString, argument and result
  nsMaps,        \* the namespace maps handleStartElement has made, by identity
  nav,           \* the cursor of an Evaluate call and what its last call returned
  frag           \* the attribute bytes of the document's start tags, in pieces

vars == <<streamNames, bufferSize, givenSize, releasing, once, ch, chanBuf, chanClosed, tasks,
          cancelled, pc, stack, depth, pending, srcLen, pos, stopCause, elems,
          cnodes, xmlElementPool, xmlContentNodePool, madeElems, madeContent,
          returned, calls, nextSer, gstack, gparent, gname, gkids, gtag, gptr, closeLog,
          recvLog, sentAfterCancel, strCalls, nsMaps, nav, frag>>

\* ----------------------------------------------------------------- helpers
Last(s) == s[Len(s)]
Front(s) == SubSeq(s, 1, Len(s) - 1)
ERef(a) == <<"e", a>>
CRef(k) == <<"c", k>>
IsERef(r) == r[1] = "e"
NoPending == [ptr |-> 0, ser |-> 0, afterEnd |-> FALSE]
BagAdd(b, x) == [b EXCEPT ![x] = @ + 1]
BagRemove(b, x) == [b EXCEPT ![x] = @ - 1]

\* a map[string]string is a reference: the identity of a map made earlier
\* (an index of nsMaps, whose entries are a set of <<key, value>> pairs), or nil
NilMap == 0

\* element.go: xmlElementPool.New
NewElement ==
  [Name |-> <<>>, children |-> <<>>, parent |-> 0, Attributes |-> <<>>,
   localName |-> <<>>, prefix |-> <<>>, namespaceURI |-> <<>>,
   namespaces |-> NilMap, siblingIndex |-> 0, rawContent |-> <<>>]

\* element.go: xmlContentNodePool.New
NewContentNode ==
  [start |-> 0, end |-> 0, nodeType |-> TextNode, parent |-> 0, siblingIndex |-> 0]

\* ------------------------------------------------------- the lexical source
\* The tokenizer's events (gosax): a start tag carries its name and the full
\* tag bytes, text/CDATA/comment carry their raw bytes (delimiters included).
\* A start tag carries its name and its attribute bytes as gosax.Name splits
\* them.  StartTags are the tags without attribute bytes.
CDataOpen == <<"<", "!", "[", "C", "D", "A", "T", "A", "[">>
CDataClose == <<"]", "]", ">">>
CommentOpen == <<"<", "!", "-", "-">>
CommentClose == <<"-", "-", ">">>
XmlnsName == <<"x", "m", "l", "n", "s">>
XmlnsPrefix == <<"x", "m", "l", "n", "s", ":">>

\* The document side of a tag is kept with it: empty says that the tag is
\* self-closing, decls and alist are the namespace declarations and the
\* attributes it was written with.
Tag(n, attrs, decls, alist, selfClosing) ==
  [type |-> "start", name |-> n, attrs |-> attrs,
   fullTag |-> <<"<">> \o n \o (IF attrs = <<>> THEN <<>> ELSE <<" ">> \o attrs)
                 \o (IF selfClosing THEN <<"/", ">">> ELSE <<">">>),
   empty |-> selfClosing, decls |-> decls, alist |-> alist]

StartTags == {Tag(n, <<>>, {}, <<>>, sc) : n \in Names, sc \in BOOLEAN}
\* the attribute bytes a="1" and the start tags that carry them
OneAttr == <<"a", "=", "\"", "1", "\"">>
AttrTags ==
  {Tag(n, OneAttr, {}, <<[Name |-> <<"a">>, Value |-> <<"1">>]>>, sc) :
     n \in Names, sc \in BOOLEAN}
\* the attribute bytes a="1" b='2'; the start tags of a document whose item
\* elements carry them and whose root elements are empty; its content
TwoAttrs == OneAttr \o <<" ", "b", "=", "'", "2", "'">>
NavTags ==
  {Tag(Root, <<>>, {}, <<>>, TRUE)}
    \cup {Tag(Item, TwoAttrs, {},
               <<[Name |-> <<"a">>, Value |-> <<"1">>],
                 [Name |-> <<"b">>, Value |-> <<"2">>]>>, sc) : sc \in BOOLEAN}
NavContent ==
  {[type |-> "text", bytes |-> <<"a">>],
   [type |-> "comment", bytes |-> CommentOpen \o <<"c">> \o CommentClose]}
\* a prefixed name, namespace declarations, and the start tags that carry one:
\* xmlns:n="u", xmlns:n="v", xmlns="d", and a="1" xmlns:n="u"
NC == <<"n", ":", "c">>
NsNames == {Item, NC}
NsDecls == {<<<<"n">>, <<"u">>>>, <<<<"n">>, <<"v">>>>, <<<<>>, <<"d">>>>}
DeclAttrName(d) == IF d[1] = <<>> THEN XmlnsName ELSE XmlnsPrefix \o d[1]
RenderDecl(d) == DeclAttrName(d) \o <<"=", "\"">> \o d[2] \o <<"\"">>
NsTags ==
  {Tag(n, <<>>, {}, <<>>, sc) : n \in NsNames, sc \in BOOLEAN}
    \cup {Tag(n, RenderDecl(d), {d},
               <<[Name |-> DeclAttrName(d), Value |-> d[2]]>>, FALSE) :
             n \in NsNames, d \in NsDecls}
    \cup {Tag(Item, OneAttr \o <<" ">> \o RenderDecl(<<<<"n">>, <<"u">>>>),
               {<<<<"n">>, <<"u">>>>},
               <<[Name |-> <<"a">>, Value |-> <<"1">>],
                 [Name |-> XmlnsPrefix \o <<"n">>, Value |-> <<"u">>]>>, FALSE)}
\* pieces of attribute bytes, well formed and not: a="1", a='2', xmlns:n="u"
\* and xmlns="d" spell an attribute; c has no '=', c=3 has a value that does
\* not begin with a quote, c= has no value, and c="3 has no closing quote
Piece(bytes, kind, name, value) ==
  [bytes |-> bytes, kind |-> kind, Name |-> name, Value |-> value]
GoodPieces ==
  {Piece(OneAttr, "attr", <<"a">>, <<"1">>),
   Piece(<<"a", "=", "'", "2", "'">>, "attr", <<"a">>, <<"2">>),
   Piece(RenderDecl(<<<<"n">>, <<"u">>>>), "attr", XmlnsPrefix \o <<"n">>, <<"u">>),
   Piece(RenderDecl(<<<<>>, <<"d">>>>), "attr", XmlnsName, <<"d">>)}
BadPieces ==
  {Piece(<<"c">>, "noEq", <<>>, <<>>),
   Piece(<<"c", "=", "3">>, "unquoted", <<>>, <<>>),
   Piece(<<"c", "=">>, "noValue", <<>>, <<>>),
   Piece(<<"c", "=", "\"", "3">>, "open", <<>>, <<>>)}
Pieces == GoodPieces \cup BadPieces

\* the attribute bytes of a start tag: one, two or three pieces, a space between
Frags ==
  {<<p>> : p \in Pieces} \cup {<<p, q>> : p, q \in Pieces}
    \cup {<<p, q, r>> : p, q, r \in Pieces}
RECURSIVE FragBytes(_)
FragBytes(f) ==
  IF f = <<>> THEN <<>>
  ELSE IF Len(f) = 1 THEN f[1].bytes
  ELSE f[1].bytes \o <<" ">> \o FragBytes(Tail(f))

\* the well-formed attributes that the pieces spell before the first piece
\* that is not one, and the namespace declarations among them (a later
\* declaration of a prefix replaces an earlier one)
RECURSIVE GoodPrefix(_)
GoodPrefix(f) ==
  IF f = <<>> \/ f[1].kind # "attr" THEN <<>>
  ELSE <<[Name |-> f[1].Name, Value |-> f[1].Value]>> \o GoodPrefix(Tail(f))
RECURSIVE DeclsOf(_)
DeclsOf(alist) ==
  IF alist = <<>> THEN {}
  ELSE LET a == alist[Len(alist)]
           rest == DeclsOf(SubSeq(alist, 1, Len(alist) - 1))
       IN IF a.Name = XmlnsName
          THEN {d \in rest : d[1] # <<>>} \cup {<<<<>>, a.Value>>}
          ELSE IF Len(a.Name) > Len(XmlnsPrefix)
                  /\ SubSeq(a.Name, 1, Len(XmlnsPrefix)) = XmlnsPrefix
          THEN LET k == SubSeq(a.Name, Len(XmlnsPrefix) + 1, Len(a.Name)) IN
               {d \in rest : d[1] # k} \cup {<<k, a.Value>>}
          ELSE rest

\* the start tags whose attribute bytes are the pieces f
FragTags(f) ==
  {Tag(n, FragBytes(f), DeclsOf(GoodPrefix(f)), GoodPrefix(f), sc) :
     n \in Names, sc \in BOOLEAN}

TextEvents ==
  {[type |-> "text", bytes |-> b] : b \in {<<"a">>, <<" ", "&", "\n">>}}
CDataEvents ==
  {[type |-> "cdata", bytes |-> CDataOpen \o b \o CDataClose] :
     b \in {<<>>, <<"<", "&">>}}
CommentEvents ==
  {[type |-> "comment", bytes |-> CommentOpen \o b \o CommentClose] :
     b \in {<<>>, <<"c">>}}
StopEvents == {[type |-> "eof"], [type |-> "err"]}

\* ------------------------------------------------------------------- pools
\* getElementFromPool: any pooled object, or a new one from xmlElementPool.New
ElementChoices ==
  {a \in Addr : xmlElementPool[a] > 0} \cup
  (IF madeElems < MaxElems THEN {madeElems + 1} ELSE {})

\* getContentNodeFromPool: any pooled object, or a new one
ContentChoices ==
  {k \in CAddr : xmlContentNodePool[k] > 0} \cup
  (IF madeContent < MaxContent THEN {madeContent + 1} ELSE {})

\* the pool after Get returned address a (a new object leaves it unchanged)
PoolAfterGet(pool, a) == IF pool[a] > 0 THEN BagRemove(pool, a) ELSE pool

\* the count of objects made after Get returned address a
MadeAfterGet(pool, made, a) == IF pool[a] > 0 THEN made ELSE made + 1

\* returnElementToPool: the cleared fields of the element at the top of the
\* work-list (Name is left as it was)
ClearedElement(e) ==
  [e EXCEPT !.children = <<>>, !.parent = 0, !.Attributes = <<>>,
            !.namespaces = NilMap, !.siblingIndex = 0, !.rawContent = <<>>]

\* a walk that never descends: no child is appended to the work-list
PushNoChildren(stk, kids) == stk

\* returnElementToPool's inner loop over current.children: the child elements
\* appended to the work-list, in order
RECURSIVE PushChildElements(_, _)
PushChildElements(stk, kids) ==
  IF kids = <<>> THEN stk
  ELSE PushChildElements(
         IF IsERef(Head(kids)) THEN Append(stk, Head(kids)[2]) ELSE stk,
         Tail(kids))

\* returnElementToPool's inner loop: the content-node children put in the pool
RECURSIVE PutChildContent(_, _)
PutChildContent(cpool, kids) ==
  IF kids = <<>> THEN cpool
  ELSE PutChildContent(
         IF IsERef(Head(kids)) THEN cpool ELSE BagAdd(cpool, Head(kids)[2]),
         Tail(kids))

\* an iteration that puts the popped element into the pool twice
ReturnStepPutTwice(stk, E, ep, cp) ==
  [stack |-> PushChildElements(Front(stk), E[Last(stk)].children),
   elems |-> [E EXCEPT ![Last(stk)] = ClearedElement(@)],
   epool |-> BagAdd(BagAdd(ep, Last(stk)), Last(stk)),
   cpool |-> PutChildContent(cp, E[Last(stk)].children)]

\* returnElementToPool: one iteration of the work-list loop, from a non-empty
\* work-list stk, heap E, element pool ep and content pool cp
ReturnStep(stk, E, ep, cp) ==
  [stack |-> PushChildElements(Front(stk), E[Last(stk)].children),
   elems |-> [E EXCEPT ![Last(stk)] = ClearedElement(@)],
   epool |-> BagAdd(ep, Last(stk)),
   cpool |-> PutChildContent(cp, E[Last(stk)].children)]

\* returnElementToPool: the work-list loop run to its end, to the heap and
\* pools it leaves
RECURSIVE returnElementToPool(_, _, _, _)
returnElementToPool(stk, E, ep, cp) ==
  IF stk = <<>> THEN [elems |-> E, epool |-> ep, cpool |-> cp]
  ELSE LET r == ReturnStep(stk, E, ep, cp)
       IN returnElementToPool(r.stack, r.elems, r.epool, r.cpool)

\* ----------------------------------------------------------------- Parser
\* a NewParser that takes the bufferSize argument as it is
BufferSizeAsGiven(size) == size

\* NewParser: bufferSize <= 0 becomes the default
EffectiveBufferSize(size) == IF size <= 0 THEN DefaultBufferSize ELSE size

\* NewParser that would start the parse task itself
NewParserEager(names, size) ==
  [streamNames |-> names, bufferSize |-> EffectiveBufferSize(size),
   once |-> FALSE, ch |-> 0, task |-> "loop"]

\* NewParser: the Parser it returns and the state of its parse task
NewParser(names, size) ==
  [streamNames |-> names, bufferSize |-> EffectiveBufferSize(size),
   once |-> FALSE, ch |-> 0, task |-> "idle"]

\* Stream without the sync.Once: the function runs on every call
OnceAlwaysRuns(done) == TRUE

\* sync.Once in Stream: the function runs when it has not run before
OnceShouldRun(done) == ~done

\* an emit decision that takes an empty target set to mean every name
shouldStreamOrEmpty(names, name) == Cardinality(names) = 0 \/ name \in names

\* checkAndStreamElement: the emit decision
shouldStream(names, name) == Cardinality(names) > 0 /\ name \in names

\* a self-closing test that finds every tag self-closing
IsSelfClosingAlways(fullTag) == TRUE

\* a self-closing test that never finds the tag self-closing
IsSelfClosingNever(fullTag) == FALSE

\* handleStartElement: the self-closing test on the full tag bytes
isSelfClosing(fullTag) ==
  Len(fullTag) >= 2 /\ fullTag[Len(fullTag) - 1] = "/" /\ fullTag[Len(fullTag)] = ">"

\* a break condition that never looks at the context
ParseBreaksNoCtx(ev, ctxErr) == ev.type = "err" \/ ev.type = "eof"

\* a loop that looks at the context only when it has read a start tag
ParseBreaksCtxOnStart(ev, ctxErr) ==
  ev.type = "err" \/ ev.type = "eof" \/ (ctxErr /\ ev.type = "start")

\* parse: the loop's break condition
ParseBreaks(ev, ctxErr) == ev.type = "err" \/ ev.type = "eof" \/ ctxErr

\* a CDATA strip that takes one byte too few off the front
CDataContentShort(bytes) ==
  IF Len(bytes) > CDataMinLen
  THEN SubSeq(bytes, CDataPrefixLen, Len(bytes) - CDataSuffixLen)
  ELSE <<>>

\* parse: the content bytes a CDATA event contributes (<<>>: no node)
CDataContent(bytes) ==
  IF Len(bytes) > CDataMinLen
  THEN SubSeq(bytes, CDataPrefixLen + 1, Len(bytes) - CDataSuffixLen)
  ELSE <<>>

\* parse: the content bytes a comment event contributes
CommentContent(bytes) ==
  SubSeq(bytes, CommentPrefixLen + 1, Len(bytes) - CommentSuffixLen)

\* the outermost open element instead of the innermost
StackBottom(stk) == stk[1]

\* handleEndElement / handleStartElement: the innermost open element
StackTop(stk) == stk[Len(stk)]

\* the channel: what a receive takes and what it leaves
ChanHead(buf) == Head(buf)

\* the state NewParser(ctx, reader, names, size) leaves
Constructed(names, size) ==
  LET p == NewParser(names, size) IN
    /\ streamNames = p.streamNames
    /\ bufferSize = p.bufferSize
    /\ givenSize = size
    /\ once = p.once
    /\ ch = p.ch
    /\ pc = p.task

\* no element made yet, the element pool empty
EmptyPool ==
  /\ elems = [a \in Addr |-> NewElement]
  /\ xmlElementPool = [a \in Addr |-> 0]
  /\ madeElems = 0

\* an element as an earlier Release left it: the fields returnElementToPool
\* clears are clear, the names and the namespace URI are what they were
UsedElement ==
  [NewElement EXCEPT !.Name = NC, !.localName = <<"c">>, !.prefix = <<"n">>,
                     !.namespaceURI = <<"u">>]

\* the element pool holds one element that an earlier parse used and a
\* consumer released
UsedPool ==
  /\ elems = [a \in Addr |-> IF a = 1 THEN UsedElement ELSE NewElement]
  /\ xmlElementPool = [a \in Addr |-> IF a = 1 THEN 1 ELSE 0]
  /\ madeElems = 1

\* nothing parsed or sent yet, no content node made, no cursor; the start
\* tags of the document carry the attribute pieces f
UnstartedOn(f) ==
  /\ frag = f
  /\ nav = <<>>
  /\ releasing = <<>>
  /\ chanBuf = <<>>
  /\ chanClosed = 0
  /\ tasks = 0
  /\ cancelled = FALSE
  /\ stack = <<>>
  /\ depth = 0
  /\ pending = NoPending
  /\ pos = 0
  /\ stopCause = "none"
  /\ cnodes = [k \in CAddr |-> NewContentNode]
  /\ xmlContentNodePool = [k \in CAddr |-> 0]
  /\ madeContent = 0
  /\ returned = {}
  /\ calls = 0
  /\ nextSer = 1
  /\ gstack = <<>>
  /\ gparent = <<>>
  /\ gname = <<>>
  /\ gkids = <<>>
  /\ gtag = <<>>
  /\ gptr = <<>>
  /\ closeLog = <<>>
  /\ recvLog = <<>>
  /\ sentAfterCancel = 0
  /\ strCalls = <<>>
  /\ nsMaps = <<>>

\* the same, for a document whose start tags are those of the events
Unstarted == UnstartedOn(<<>>)

\* nothing parsed, sent or pooled yet
Fresh == Unstarted /\ EmptyPool

Init ==
  /\ \E names \in TargetSets, size \in BufferSizes : Constructed(names, size)
  /\ srcLen = MaxEvents
  /\ Fresh


\* ------------------------------------------------------------------ Stream
\* Parser.Stream, one call by any task: once.Do makes the channel and starts
\* the parse goroutine the first time; every call returns p.ch
Stream ==
  /\ IF OnceShouldRun(once)
     THEN /\ ch' = ch + 1
          /\ tasks' = tasks + 1
          /\ pc' = "loop"
          /\ once' = TRUE
     ELSE UNCHANGED <<ch, tasks, pc, once>>
  /\ returned' = returned \cup {ch'}
  /\ calls' = IF calls < 2 THEN calls + 1 ELSE calls
  /\ UNCHANGED <<streamNames, srcLen, nav, frag, strCalls, nsMaps, bufferSize, givenSize, releasing, chanBuf, chanClosed, cancelled, stack,
                 depth, pending, pos, stopCause, elems, cnodes, xmlElementPool,
                 xmlContentNodePool, madeElems, madeContent, nextSer, gstack,
                 gparent, gname, gkids, gtag, gptr, closeLog, recvLog, sentAfterCancel>>

\* the cancellation signal of the context given to NewParser
Cancel ==
  /\ ~cancelled
  /\ cancelled' = TRUE
  /\ UNCHANGED <<streamNames, srcLen, nav, frag, strCalls, nsMaps, bufferSize, givenSize, releasing, once, ch, chanBuf, chanClosed, tasks,
                 pc, stack, depth, pending, pos, stopCause, elems, cnodes,
                 xmlElementPool, xmlContentNodePool, madeElems, madeContent,
                 returned, calls, nextSer, gstack, gparent, gname, gkids, gtag, gptr, closeLog, recvLog,
                 sentAfterCancel>>

\* ------------------------------------------------------------------- parse
\* strings.IndexByte, 1-based: 0 when the byte does not occur
IndexByte(str, c) ==
  IF \E i \in DOMAIN str : str[i] = c
  THEN CHOOSE i \in DOMAIN str : str[i] = c /\ \A j \in 1..(i - 1) : str[j] # c
  ELSE 0

\* handleStartElement: the prefix and the local name of a qualified name
PrefixOf(name) ==
  IF IndexByte(name, ":") # 0 THEN SubSeq(name, 1, IndexByte(name, ":") - 1) ELSE <<>>

LocalNameOf(name) ==
  IF IndexByte(name, ":") # 0
  THEN SubSeq(name, IndexByte(name, ":") + 1, Len(name))
  ELSE name

\* m[k] of a Go map: the empty string when the key is absent
MapLookup(entries, k) ==
  IF \E e \in entries : e[1] = k
  THEN (CHOOSE e \in entries : e[1] = k)[2]
  ELSE <<>>

\* the byte classes of the two attribute scanners
AttrSpace == {" ", "\t", "\n", "\r"}
ValueSpace == {" ", "\t"}
Quotes == {"\"", "'"}
TrimSet == {" ", "\t", "\n", "\r", "\f"}

\* for i < len(attrs) && attrs[i] in set { i++ }: the index the loop stops at
\* (1-based, Len + 1 for the end)
RECURSIVE SkipWhile(_, _, _)
SkipWhile(attrs, i, set) ==
  IF i <= Len(attrs) /\ attrs[i] \in set THEN SkipWhile(attrs, i + 1, set) ELSE i

\* for i < len(attrs) && attrs[i] != c { i++ }: the index the loop stops at
RECURSIVE ScanUntil(_, _, _)
ScanUntil(attrs, i, c) ==
  IF i <= Len(attrs) /\ attrs[i] # c THEN ScanUntil(attrs, i + 1, c) ELSE i

\* bytes.TrimSpace
RECURSIVE TrimSpace(_)
TrimSpace(b) ==
  IF b = <<>> THEN b
  ELSE IF b[1] \in TrimSet THEN TrimSpace(Tail(b))
  ELSE IF b[Len(b)] \in TrimSet THEN TrimSpace(SubSeq(b, 1, Len(b) - 1))
  ELSE b

\* strings.HasPrefix
HasPrefix(str, pre) == Len(str) >= Len(pre) /\ SubSeq(str, 1, Len(pre)) = pre

\* bytes.Contains
Contains(b, sub) ==
  \E i \in 1..(Len(b) - Len(sub) + 1) : SubSeq(b, i, i + Len(sub) - 1) = sub

\* parseAttributes: the number of '=' bytes
AttrCount(attrs) == Cardinality({i \in DOMAIN attrs : attrs[i] = "="})

\* parseAttributes: the scanning loop from index i with acc collected so far
RECURSIVE ParseAttributesFrom(_, _, _)
ParseAttributesFrom(attrs, i, acc) ==
  LET nameStart == SkipWhile(attrs, i, AttrSpace)
      eq == ScanUntil(attrs, nameStart, "=")
      q == SkipWhile(attrs, eq + 1, ValueSpace)
      close == ScanUntil(attrs, q + 1, attrs[q])
  IN
  IF nameStart > Len(attrs) THEN acc
  ELSE IF eq > Len(attrs) THEN acc
  ELSE IF q > Len(attrs) THEN acc
  ELSE IF attrs[q] \notin Quotes THEN acc
  ELSE ParseAttributesFrom(attrs, close + 1,
         Append(acc, [Name |-> TrimSpace(SubSeq(attrs, nameStart, eq - 1)),
                      Value |-> SubSeq(attrs, q + 1, close - 1)]))

\* parseAttributes: elem.Attributes after the call, from what it held before
parseAttributes(attrs, old) ==
  IF AttrCount(attrs) = 0 THEN old ELSE ParseAttributesFrom(attrs, 1, <<>>)

\* namespaces[k] = v on a Go map held as a set of pairs
MapPut(entries, k, v) == {e \in entries : e[1] # k} \cup {<<k, v>>}

\* extractNamespaces: the scanning loop from index i with the declarations
\* found so far
RECURSIVE ExtractNamespacesFrom(_, _, _)
ExtractNamespacesFrom(attrs, i, found) ==
  LET nameStart == SkipWhile(attrs, i, AttrSpace)
      eq == ScanUntil(attrs, nameStart, "=")
      name == TrimSpace(SubSeq(attrs, nameStart, eq - 1))
      q == SkipWhile(attrs, eq + 1, ValueSpace)
      close == ScanUntil(attrs, q + 1, attrs[q])
      value == SubSeq(attrs, q + 1, close - 1)
  IN
  IF nameStart > Len(attrs) THEN found
  ELSE IF eq > Len(attrs) THEN found
  ELSE IF Len(name) < 5 \/ name[1] \notin {"x", "X"}
  THEN IF q <= Len(attrs) /\ attrs[q] \in Quotes
       THEN ExtractNamespacesFrom(attrs, close + 1, found)
       ELSE ExtractNamespacesFrom(attrs, q, found)
  ELSE IF q > Len(attrs) THEN found
  ELSE IF attrs[q] \notin Quotes THEN found
  ELSE ExtractNamespacesFrom(attrs, close + 1,
         IF name = XmlnsName THEN MapPut(found, <<>>, value)
         ELSE IF HasPrefix(name, XmlnsPrefix)
         THEN MapPut(found, SubSeq(name, Len(XmlnsPrefix) + 1, Len(name)), value)
         ELSE found)

\* extractNamespaces: the declarations of a start tag (none is nil)
extractNamespaces(attrs) ==
  IF Len(attrs) = 0 THEN {} ELSE ExtractNamespacesFrom(attrs, 1, {})

\* parse, case EventStart: the elementNamespaces handed to handleStartElement
ElementNamespaces(attrs) ==
  IF Len(attrs) > 0 /\ Contains(attrs, XmlnsName) THEN extractNamespaces(attrs) ELSE {}

\* handleStartElement: parentNS, the namespace map of the innermost open
\* element
ParentNS(E, stk) == IF Len(stk) > 0 THEN E[StackTop(stk)].namespaces ELSE NilMap

\* handleStartElement: the entries of the map made for an element with
\* declarations: the parent's entries, then the element's own over them
Overlay(parentEntries, decls) ==
  {e \in parentEntries : \A d \in decls : d[1] # e[1]} \cup decls

\* a namespace context that drops the parent's bindings when the element
\* declares any of its own
NsContextNoInherit(M, parentNS, decls) ==
  IF Cardinality(decls) > 0
  THEN [maps |-> Append(M, decls), ref |-> Len(M) + 1]
  ELSE [maps |-> M, ref |-> parentNS]

\* a namespace context that writes the element's declarations into the
\* parent's map and shares it
NsContextInPlace(M, parentNS, decls) ==
  IF Cardinality(decls) > 0
  THEN IF parentNS # NilMap
       THEN [maps |-> [M EXCEPT ![parentNS] = Overlay(@, decls)], ref |-> parentNS]
       ELSE [maps |-> Append(M, decls), ref |-> Len(M) + 1]
  ELSE [maps |-> M, ref |-> parentNS]

\* handleStartElement: nsContext of an element that declares decls under a
\* parent whose map is parentNS, and the maps there are after it: a map of its
\* own when it declares anything, the parent's map itself otherwise
NsContext(M, parentNS, decls) ==
  IF Cardinality(decls) > 0
  THEN [maps |-> Append(M, Overlay(IF parentNS # NilMap THEN M[parentNS] ELSE {},
                                   decls)),
        ref |-> Len(M) + 1]
  ELSE [maps |-> M, ref |-> parentNS]

\* a handleStartElement that gives every element the sibling index 0
LinkElementFirstIndex(E, M, a, name, attrs, decls, stk) ==
  LET nsContext == NsContext(M, ParentNS(E, stk), decls)
      E1 == [E EXCEPT ![a].Name = name,
                      ![a].localName = LocalNameOf(name),
                      ![a].prefix = PrefixOf(name),
                      ![a].namespaceURI =
                        IF nsContext.ref = NilMap THEN <<>>
                        ELSE MapLookup(nsContext.maps[nsContext.ref], PrefixOf(name)),
                      ![a].namespaces = nsContext.ref,
                      ![a].Attributes =
                        IF Len(attrs) > 0 THEN parseAttributes(attrs, @) ELSE @]
  IN
  IF Len(stk) > 0
  THEN LET parent == StackTop(stk)
           E2 == [E1 EXCEPT ![a].parent = parent]
           E3 == [E2 EXCEPT ![a].siblingIndex = 0]
       IN [E3 EXCEPT ![parent].children = Append(@, ERef(a))]
  ELSE E1

\* handleStartElement: the heap after element a was populated and linked as
\* the last child of the stack top; M holds the namespace maps made so far
LinkElement(E, M, a, name, attrs, decls, stk) ==
  LET nsContext == NsContext(M, ParentNS(E, stk), decls)
      E1 == [E EXCEPT ![a].Name = name,
                      ![a].localName = LocalNameOf(name),
                      ![a].prefix = PrefixOf(name),
                      ![a].namespaceURI =
                        IF nsContext.ref = NilMap THEN <<>>
                        ELSE MapLookup(nsContext.maps[nsContext.ref], PrefixOf(name)),
                      ![a].namespaces = nsContext.ref,
                      ![a].Attributes =
                        IF Len(attrs) > 0 THEN parseAttributes(attrs, @) ELSE @]
  IN
  IF Len(stk) > 0
  THEN LET parent == StackTop(stk)
           E2 == [E1 EXCEPT ![a].parent = parent]
           E3 == [E2 EXCEPT ![a].siblingIndex = Len(E2[parent].children)]
       IN [E3 EXCEPT ![parent].children = Append(@, ERef(a))]
  ELSE E1

\* checkAndStreamElement on element a (serial s): a target is detached and its
\* send begins (pc = send); anything else stays where it is.  afterEnd says
\* that handleEndElement's depth-- is still to come.
checkAndStreamElement(E, a, s, afterEnd) ==
  /\ closeLog' = Append(closeLog, s)
  /\ IF shouldStream(streamNames, E[a].Name)
     THEN /\ elems' = [E EXCEPT ![a].parent = 0]
          /\ pending' = [ptr |-> a, ser |-> s, afterEnd |-> afterEnd]
          /\ pc' = "send"
          /\ UNCHANGED depth
     ELSE /\ elems' = E
          /\ pending' = NoPending
          /\ pc' = "loop"
          /\ depth' = IF afterEnd THEN depth - 1 ELSE depth

\* parse, case EventStart with start tag ev: handleStartElement
StartElement(ev) ==
  /\ pc = "loop" /\ pos < srcLen
  /\ \E a \in ElementChoices :
       /\ ~ParseBreaks(ev, cancelled)
       /\ xmlElementPool' = PoolAfterGet(xmlElementPool, a)
       /\ madeElems' = MadeAfterGet(xmlElementPool, madeElems, a)
       /\ nextSer' = nextSer + 1
       /\ gparent' = Append(gparent, IF gstack = <<>> THEN 0 ELSE Last(gstack))
       /\ gname' = Append(gname, ev.name)
       /\ gkids' = Append(
            IF gstack = <<>> THEN gkids
            ELSE [gkids EXCEPT ![Last(gstack)] =
                    Append(@, [kind |-> "elem", bytes |-> <<>>, ser |-> nextSer])],
            <<>>)
       /\ gptr' = Append(gptr, a)
       /\ gtag' = Append(gtag, ev)
       /\ gstack' = IF ev.empty THEN gstack ELSE Append(gstack, nextSer)
       /\ nsMaps' = NsContext(nsMaps, ParentNS(elems, stack),
                              ElementNamespaces(ev.attrs)).maps
       /\ LET E == LinkElement(elems, nsMaps, a, ev.name, ev.attrs,
                               ElementNamespaces(ev.attrs), stack) IN
          IF isSelfClosing(ev.fullTag)
          THEN /\ checkAndStreamElement(E, a, nextSer, FALSE)
               /\ UNCHANGED stack
          ELSE /\ elems' = E
               /\ stack' = Append(stack, a)
               /\ depth' = depth + 1
               /\ UNCHANGED <<pc, pending, closeLog>>
  /\ pos' = pos + 1
  /\ UNCHANGED <<streamNames, srcLen, nav, frag, strCalls, bufferSize, givenSize, releasing, once, ch, chanBuf, chanClosed, tasks,
                 cancelled, stopCause, cnodes, xmlContentNodePool, madeContent,
                 returned, calls, recvLog, sentAfterCancel>>

\* a start tag without attributes
StartEvent == \E ev \in StartTags : StartElement(ev)

\* a start tag with an attribute
AttrStartEvent == \E ev \in AttrTags : StartElement(ev)

\* a start tag with a namespace declaration or a prefixed name
\* a start tag whose attribute bytes are the pieces of the document
FragStartEvent == \E ev \in FragTags(frag) : StartElement(ev)

NavStartEvent == \E ev \in NavTags : StartElement(ev)

NsStartEvent == \E ev \in NsTags : StartElement(ev)

\* a handleEndElement that counts the depth down on an empty stack too
EndEventUnderflow ==
  /\ pc = "loop" /\ pos < srcLen
  /\ ~ParseBreaks([type |-> "end"], cancelled)
  /\ gstack' = IF gstack = <<>> THEN gstack ELSE Front(gstack)
  /\ IF Len(stack) = 0
     THEN /\ depth' = depth - 1
          /\ UNCHANGED <<stack, elems, pending, pc, closeLog>>
     ELSE /\ stack' = Front(stack)
          /\ checkAndStreamElement(elems, StackTop(stack),
                                   IF gstack = <<>> THEN 0 ELSE Last(gstack), TRUE)
  /\ pos' = pos + 1
  /\ UNCHANGED <<streamNames, srcLen, nav, frag, strCalls, nsMaps, bufferSize, givenSize, releasing, once, ch, chanBuf, chanClosed, tasks,
                 cancelled, stopCause, cnodes, xmlElementPool, xmlContentNodePool,
                 madeElems, madeContent, returned, calls, nextSer, gparent, gname, gkids, gtag, gptr,
                 recvLog, sentAfterCancel>>

\* parse, case EventEnd: handleEndElement
EndEvent ==
  /\ pc = "loop" /\ pos < srcLen
  /\ ~ParseBreaks([type |-> "end"], cancelled)
  /\ gstack' = IF gstack = <<>> THEN gstack ELSE Front(gstack)
  /\ IF Len(stack) = 0
     THEN UNCHANGED <<stack, elems, pending, pc, depth, closeLog>>
     ELSE /\ stack' = Front(stack)
          /\ checkAndStreamElement(elems, StackTop(stack),
                                   IF gstack = <<>> THEN 0 ELSE Last(gstack), TRUE)
  /\ pos' = pos + 1
  /\ UNCHANGED <<streamNames, srcLen, nav, frag, strCalls, nsMaps, bufferSize, givenSize, releasing, once, ch, chanBuf, chanClosed, tasks,
                 cancelled, stopCause, cnodes, xmlElementPool, xmlContentNodePool,
                 madeElems, madeContent, returned, calls, nextSer, gparent, gname, gkids, gtag, gptr,
                 recvLog, sentAfterCancel>>

\* a content case that starts every range at offset 0
AppendContentFromZero(k, content, kind) ==
  LET parent == StackTop(stack) IN
  /\ xmlContentNodePool' = PoolAfterGet(xmlContentNodePool, k)
  /\ madeContent' = MadeAfterGet(xmlContentNodePool, madeContent, k)
  /\ cnodes' = [cnodes EXCEPT ![k] =
       [start |-> 0,
        end |-> Len(content),
        nodeType |-> kind, parent |-> parent,
        siblingIndex |-> Len(elems[parent].children)]]
  /\ elems' = [elems EXCEPT ![parent].rawContent = @ \o content,
                            ![parent].children = Append(@, CRef(k))]

\* parse, the three content cases: content node k, taken from the pool, gets
\* the range of the appended bytes and becomes the last child of the stack top
AppendContent(k, content, kind) ==
  LET parent == StackTop(stack) IN
  /\ xmlContentNodePool' = PoolAfterGet(xmlContentNodePool, k)
  /\ madeContent' = MadeAfterGet(xmlContentNodePool, madeContent, k)
  /\ cnodes' = [cnodes EXCEPT ![k] =
       [start |-> Len(elems[parent].rawContent),
        end |-> Len(elems[parent].rawContent) + Len(content),
        nodeType |-> kind, parent |-> parent,
        siblingIndex |-> Len(elems[parent].children)]]
  /\ elems' = [elems EXCEPT ![parent].rawContent = @ \o content,
                            ![parent].children = Append(@, CRef(k))]

\* history: the content event ev noted with the innermost open element
RecordContent(ev) ==
  IF gstack = <<>> THEN gkids
  ELSE [gkids EXCEPT ![Last(gstack)] =
          Append(@, [kind |-> ev.type, bytes |-> ev.bytes, ser |-> 0])]

\* parse, case EventText
TextEvent ==
  /\ pc = "loop" /\ pos < srcLen
  /\ \E ev \in TextEvents :
       /\ ~ParseBreaks(ev, cancelled)
       /\ gkids' = RecordContent(ev)
       /\ IF Len(stack) > 0 /\ Len(ev.bytes) > 0
          THEN \E k \in ContentChoices : AppendContent(k, ev.bytes, TextNode)
          ELSE UNCHANGED <<elems, cnodes, xmlContentNodePool, madeContent>>
  /\ pos' = pos + 1
  /\ UNCHANGED <<streamNames, srcLen, nav, frag, strCalls, nsMaps, bufferSize, givenSize, releasing, once, ch, chanBuf, chanClosed, tasks,
                 cancelled, pc, stack, depth, pending, stopCause, xmlElementPool,
                 madeElems, returned, calls, nextSer, gstack, gparent, gname, gtag, gptr, closeLog,
                 recvLog, sentAfterCancel>>

\* parse, case EventCData
CDataEvent ==
  /\ pc = "loop" /\ pos < srcLen
  /\ \E ev \in CDataEvents :
       /\ ~ParseBreaks(ev, cancelled)
       /\ gkids' = RecordContent(ev)
       /\ IF Len(stack) > 0 /\ Len(ev.bytes) > CDataMinLen
             /\ Len(CDataContent(ev.bytes)) > 0
          THEN \E k \in ContentChoices :
                 AppendContent(k, CDataContent(ev.bytes), TextNode)
          ELSE UNCHANGED <<elems, cnodes, xmlContentNodePool, madeContent>>
  /\ pos' = pos + 1
  /\ UNCHANGED <<streamNames, srcLen, nav, frag, strCalls, nsMaps, bufferSize, givenSize, releasing, once, ch, chanBuf, chanClosed, tasks,
                 cancelled, pc, stack, depth, pending, stopCause, xmlElementPool,
                 madeElems, returned, calls, nextSer, gstack, gparent, gname, gtag, gptr, closeLog,
                 recvLog, sentAfterCancel>>

\* parse, case EventComment
CommentEvent ==
  /\ pc = "loop" /\ pos < srcLen
  /\ \E ev \in CommentEvents :
       /\ ~ParseBreaks(ev, cancelled)
       /\ gkids' = RecordContent(ev)
       /\ IF Len(stack) > 0 /\ Len(ev.bytes) > CommentMinLen
          THEN \E k \in ContentChoices :
                 AppendContent(k, CommentContent(ev.bytes), CommentNode)
          ELSE UNCHANGED <<elems, cnodes, xmlContentNodePool, madeContent>>
  /\ pos' = pos + 1
  /\ UNCHANGED <<streamNames, srcLen, nav, frag, strCalls, nsMaps, bufferSize, givenSize, releasing, once, ch, chanBuf, chanClosed, tasks,
                 cancelled, pc, stack, depth, pending, stopCause, xmlElementPool,
                 madeElems, returned, calls, nextSer, gstack, gparent, gname, gtag, gptr, closeLog,
                 recvLog, sentAfterCancel>>

\* parse, cases EventText and EventComment, for a text run or a comment of
\* NavContent
NavContentEvent ==
  /\ pc = "loop" /\ pos < srcLen
  /\ \E ev \in NavContent :
       /\ ~ParseBreaks(ev, cancelled)
       /\ gkids' = RecordContent(ev)
       /\ IF ev.type = "text"
          THEN IF Len(stack) > 0 /\ Len(ev.bytes) > 0
               THEN \E k \in ContentChoices : AppendContent(k, ev.bytes, TextNode)
               ELSE UNCHANGED <<elems, cnodes, xmlContentNodePool, madeContent>>
          ELSE IF Len(stack) > 0 /\ Len(ev.bytes) > CommentMinLen
               THEN \E k \in ContentChoices :
                      AppendContent(k, CommentContent(ev.bytes), CommentNode)
               ELSE UNCHANGED <<elems, cnodes, xmlContentNodePool, madeContent>>
  /\ pos' = pos + 1
  /\ UNCHANGED <<streamNames, srcLen, nav, frag, strCalls, nsMaps, bufferSize, givenSize, releasing, once, ch, chanBuf, chanClosed, tasks,
                 cancelled, pc, stack, depth, pending, stopCause, xmlElementPool,
                 madeElems, returned, calls, nextSer, gstack, gparent, gname, gtag, gptr, closeLog,
                 recvLog, sentAfterCancel>>

\* parse: the loop breaks on a read error, on end of input, or when the
\* context is cancelled (the event just read is dropped)
StopCauseOf(ev, ctxErr) ==
  IF ev.type = "err" THEN "err" ELSE IF ev.type = "eof" THEN "eof" ELSE "cancel"

BreakLoop ==
  /\ pc = "loop"
  /\ \E ev \in StopEvents \cup (IF pos < srcLen THEN {[type |-> "end"]} ELSE {}) :
       /\ ParseBreaks(ev, cancelled)
       /\ stopCause' = StopCauseOf(ev, cancelled)
  /\ pc' = "ret"
  /\ pos' = pos + 1
  /\ UNCHANGED <<streamNames, srcLen, nav, frag, strCalls, nsMaps, bufferSize, givenSize, releasing, once, ch, chanBuf, chanClosed, tasks,
                 cancelled, stack, depth, pending, elems, cnodes, xmlElementPool,
                 xmlContentNodePool, madeElems, madeContent, returned, calls,
                 nextSer, gstack, gparent, gname, gkids, gtag, gptr, closeLog, recvLog, sentAfterCancel>>

\* checkAndStreamElement: ch <- elem completes when the buffer has room
Send ==
  /\ pc = "send"
  /\ Len(chanBuf) < bufferSize
  /\ chanBuf' = Append(chanBuf, [ptr |-> pending.ptr, ser |-> pending.ser])
  /\ depth' = IF pending.afterEnd THEN depth - 1 ELSE depth
  /\ sentAfterCancel' = IF cancelled THEN sentAfterCancel + 1 ELSE sentAfterCancel
  /\ pending' = NoPending
  /\ pc' = "loop"
  /\ UNCHANGED <<streamNames, srcLen, nav, frag, strCalls, nsMaps, bufferSize, givenSize, releasing, once, ch, chanClosed, tasks, cancelled,
                 stack, pos, stopCause, elems, cnodes, xmlElementPool,
                 xmlContentNodePool, madeElems, madeContent, returned, calls,
                 nextSer, gstack, gparent, gname, gkids, gtag, gptr, closeLog, recvLog>>

\* a goroutine that closes the channel and goes round the loop once more
CloseChanLoops ==
  /\ pc = "ret"
  /\ chanClosed' = chanClosed + 1
  /\ pc' = IF chanClosed = 0 /\ pos <= srcLen THEN "loop" ELSE "done"
  /\ UNCHANGED <<streamNames, srcLen, nav, frag, strCalls, nsMaps, bufferSize, givenSize, releasing, once, ch, chanBuf, tasks, cancelled,
                 stack, depth, pending, pos, stopCause, elems, cnodes,
                 xmlElementPool, xmlContentNodePool, madeElems, madeContent,
                 returned, calls, nextSer, gstack, gparent, gname, gkids, gtag, gptr, closeLog, recvLog,
                 sentAfterCancel>>

\* Stream's goroutine: defer close(p.ch), after parse has returned
CloseChan ==
  /\ pc = "ret"
  /\ chanClosed' = chanClosed + 1
  /\ pc' = "done"
  /\ UNCHANGED <<streamNames, srcLen, nav, frag, strCalls, nsMaps, bufferSize, givenSize, releasing, once, ch, chanBuf, tasks, cancelled,
                 stack, depth, pending, pos, stopCause, elems, cnodes,
                 xmlElementPool, xmlContentNodePool, madeElems, madeContent,
                 returned, calls, nextSer, gstack, gparent, gname, gkids, gtag, gptr, closeLog, recvLog,
                 sentAfterCancel>>

\* --------------------------------------------------------------- InnerText
\* XMLContentNode.InnerText: the bytes of content node k in heap E, C
ContentInnerText(E, C, k) ==
  IF C[k].parent = 0 \/ C[k].start >= C[k].end THEN <<>>
  ELSE SubSeq(E[C[k].parent].rawContent, C[k].start + 1, C[k].end)

\* XMLElement.collectText: what the walk over kids and below writes
RECURSIVE collectText(_, _, _)
collectText(E, C, kids) ==
  IF kids = <<>> THEN <<>>
  ELSE (IF IsERef(Head(kids)) THEN collectText(E, C, E[Head(kids)[2]].children)
        ELSE IF C[Head(kids)[2]].nodeType = TextNode
                /\ C[Head(kids)[2]].parent # 0
                /\ C[Head(kids)[2]].start < C[Head(kids)[2]].end
        THEN SubSeq(E[C[Head(kids)[2]].parent].rawContent,
                    C[Head(kids)[2]].start + 1, C[Head(kids)[2]].end)
        ELSE <<>>)
       \o collectText(E, C, Tail(kids))

\* XMLElement.InnerText: the loop looking for an element child
HasElementChild(kids) == \E i \in DOMAIN kids : IsERef(kids[i])

\* an InnerText whose fast path trims white space
InnerTextTrimmed(E, C, a) ==
  IF Len(E[a].children) = 0 THEN <<>>
  ELSE IF ~HasElementChild(E[a].children) THEN TrimSpace(E[a].rawContent)
  ELSE collectText(E, C, E[a].children)

\* XMLElement.InnerText of the element at address a in heap E, C
InnerText(E, C, a) ==
  IF Len(E[a].children) = 0 THEN <<>>
  ELSE IF ~HasElementChild(E[a].children) THEN E[a].rawContent
  ELSE collectText(E, C, E[a].children)

\* -------------------------------------------------------- elementNavigator
\* the cursor of an XPath evaluation: root is an element address, currNode a
\* node reference, currElement an element address (0 is nil), attributeIndex
\* -1 off attributes.  NavAt(a) is the cursor Evaluate makes on element a.
NavAt(a) ==
  [root |-> a, currNode |-> ERef(a), currElement |-> a, attributeIndex |-> -1]

\* the node kinds of the xpath package that the cursor reports
RootNode == "root"
ElementNode == "element"
AttributeNode == "attribute"

\* XMLNode.Parent of a node reference
ParentOf(E, C, r) == IF IsERef(r) THEN E[r[2]].parent ELSE C[r[2]].parent

\* XMLNode.getSiblingIndex of a node reference
getSiblingIndex(E, C, r) ==
  IF IsERef(r) THEN E[r[2]].siblingIndex ELSE C[r[2]].siblingIndex

\* the cursor set on node r: the cached element is r when r is an element
EnterNode(navigator, r) ==
  [navigator EXCEPT !.currNode = r,
                    !.currElement = IF IsERef(r) THEN r[2] ELSE 0]

\* a NodeType that calls an element the root as soon as it is the cursor's root
NodeTypeRootByIdentity(E, C, navigator) ==
  IF navigator.attributeIndex # -1 THEN AttributeNode
  ELSE IF ~IsERef(navigator.currNode) THEN C[navigator.currNode[2]].nodeType
  ELSE IF navigator.currNode[2] = navigator.root THEN RootNode
  ELSE ElementNode

\* elementNavigator.NodeType
NodeType(E, C, navigator) ==
  IF navigator.attributeIndex # -1 THEN AttributeNode
  ELSE IF ~IsERef(navigator.currNode) THEN C[navigator.currNode[2]].nodeType
  ELSE IF navigator.currNode[2] = navigator.root
          /\ E[navigator.currNode[2]].parent = 0 THEN RootNode
  ELSE ElementNode

\* elementNavigator.MoveToRoot
MoveToRoot(navigator) ==
  [navigator EXCEPT !.currNode = ERef(navigator.root),
                    !.currElement = navigator.root,
                    !.attributeIndex = -1]

\* a MoveToChild that keeps the cached element when the child is a content node
MoveToChildKeepsElement(E, C, navigator) ==
  IF navigator.attributeIndex # -1 THEN [ok |-> FALSE, nav |-> navigator]
  ELSE IF navigator.currElement = 0 THEN [ok |-> FALSE, nav |-> navigator]
  ELSE IF Len(E[navigator.currElement].children) > 0
  THEN [ok |-> TRUE,
        nav |-> IF IsERef(E[navigator.currElement].children[1])
                THEN EnterNode(navigator, E[navigator.currElement].children[1])
                ELSE [navigator EXCEPT
                        !.currNode = E[navigator.currElement].children[1]]]
  ELSE [ok |-> FALSE, nav |-> navigator]

\* elementNavigator.MoveToChild: whether it moved, and the cursor after it
MoveToChild(E, C, navigator) ==
  IF navigator.attributeIndex # -1 THEN [ok |-> FALSE, nav |-> navigator]
  ELSE IF navigator.currElement = 0 THEN [ok |-> FALSE, nav |-> navigator]
  ELSE IF Len(E[navigator.currElement].children) > 0
  THEN [ok |-> TRUE,
        nav |-> EnterNode(navigator, E[navigator.currElement].children[1])]
  ELSE [ok |-> FALSE, nav |-> navigator]

\* a MoveToParent that follows the parent pointer from an attribute too
MoveToParentFollowsPointer(E, C, navigator) ==
  IF ParentOf(E, C, navigator.currNode) # 0
  THEN [ok |-> TRUE,
        nav |-> [EnterNode(navigator, ERef(ParentOf(E, C, navigator.currNode)))
                   EXCEPT !.attributeIndex = -1]]
  ELSE [ok |-> navigator.attributeIndex # -1,
        nav |-> [navigator EXCEPT !.attributeIndex = -1]]

\* elementNavigator.MoveToParent: whether it moved, and the cursor after it
MoveToParent(E, C, navigator) ==
  IF navigator.attributeIndex # -1
  THEN [ok |-> TRUE, nav |-> [navigator EXCEPT !.attributeIndex = -1]]
  ELSE IF ParentOf(E, C, navigator.currNode) # 0
  THEN [ok |-> TRUE,
        nav |-> [EnterNode(navigator, ERef(ParentOf(E, C, navigator.currNode)))
                   EXCEPT !.attributeIndex = -1]]
  ELSE [ok |-> FALSE, nav |-> navigator]

\* a MoveToNextAttribute that steps onto the end before it reports the end
MoveToNextAttributeStepsFirst(E, C, navigator) ==
  IF navigator.currElement = 0 THEN [ok |-> FALSE, nav |-> navigator]
  ELSE IF navigator.attributeIndex >= Len(E[navigator.currElement].Attributes)
  THEN [ok |-> FALSE, nav |-> navigator]
  ELSE [ok |-> navigator.attributeIndex
                 < Len(E[navigator.currElement].Attributes) - 1,
        nav |-> [navigator EXCEPT !.attributeIndex = @ + 1]]

\* elementNavigator.MoveToNextAttribute
MoveToNextAttribute(E, C, navigator) ==
  IF navigator.currElement = 0 THEN [ok |-> FALSE, nav |-> navigator]
  ELSE IF navigator.attributeIndex
            >= Len(E[navigator.currElement].Attributes) - 1
  THEN [ok |-> FALSE, nav |-> navigator]
  ELSE [ok |-> TRUE, nav |-> [navigator EXCEPT !.attributeIndex = @ + 1]]

\* elementNavigator.MoveToFirst
MoveToFirst(E, C, navigator) ==
  IF navigator.attributeIndex # -1 THEN [ok |-> FALSE, nav |-> navigator]
  ELSE IF ParentOf(E, C, navigator.currNode) = 0
  THEN [ok |-> FALSE, nav |-> navigator]
  ELSE IF getSiblingIndex(E, C, navigator.currNode) = 0
  THEN [ok |-> FALSE, nav |-> navigator]
  ELSE IF Len(E[ParentOf(E, C, navigator.currNode)].children) > 0
  THEN [ok |-> TRUE,
        nav |-> EnterNode(navigator,
                          E[ParentOf(E, C, navigator.currNode)].children[1])]
  ELSE [ok |-> FALSE, nav |-> navigator]

\* elementNavigator.MoveToNext (children[idx + 1] of the code is the entry
\* idx + 2 of the 1-based sequence)
MoveToNext(E, C, navigator) ==
  IF navigator.attributeIndex # -1 THEN [ok |-> FALSE, nav |-> navigator]
  ELSE IF ParentOf(E, C, navigator.currNode) = 0
  THEN [ok |-> FALSE, nav |-> navigator]
  ELSE LET parent == ParentOf(E, C, navigator.currNode)
           idx == getSiblingIndex(E, C, navigator.currNode)
       IN IF idx + 1 >= Len(E[parent].children)
          THEN [ok |-> FALSE, nav |-> navigator]
          ELSE [ok |-> TRUE,
                nav |-> EnterNode(navigator, E[parent].children[idx + 2])]

\* elementNavigator.MoveToPrevious (children[idx - 1] of the code is the entry
\* idx of the 1-based sequence)
MoveToPrevious(E, C, navigator) ==
  IF navigator.attributeIndex # -1 THEN [ok |-> FALSE, nav |-> navigator]
  ELSE IF ParentOf(E, C, navigator.currNode) = 0
  THEN [ok |-> FALSE, nav |-> navigator]
  ELSE LET parent == ParentOf(E, C, navigator.currNode)
           idx == getSiblingIndex(E, C, navigator.currNode)
       IN IF idx <= 0
          THEN [ok |-> FALSE, nav |-> navigator]
          ELSE [ok |-> TRUE,
                nav |-> EnterNode(navigator, E[parent].children[idx])]

\* a navigator of another implementation of xpath.NodeNavigator
ForeignNavigator == [foreign |-> TRUE]
IsElementNavigator(other) == "root" \in DOMAIN other

\* a MoveTo that does not compare the roots
MoveToAnyRoot(navigator, other) ==
  IF IsElementNavigator(other)
  THEN [ok |-> TRUE,
        nav |-> [navigator EXCEPT !.currNode = other.currNode,
                                  !.currElement = other.currElement,
                                  !.attributeIndex = other.attributeIndex]]
  ELSE [ok |-> FALSE, nav |-> navigator]

\* elementNavigator.MoveTo
MoveTo(navigator, other) ==
  IF IsElementNavigator(other) /\ other.root = navigator.root
  THEN [ok |-> TRUE,
        nav |-> [navigator EXCEPT !.currNode = other.currNode,
                                  !.currElement = other.currElement,
                                  !.attributeIndex = other.attributeIndex]]
  ELSE [ok |-> FALSE, nav |-> navigator]

\* the cursor c and every cursor that one move makes of it
Neighbours(E, C, c) ==
  {c, MoveToRoot(c), MoveToParent(E, C, c).nav, MoveToChild(E, C, c).nav,
   MoveToFirst(E, C, c).nav, MoveToNext(E, C, c).nav,
   MoveToPrevious(E, C, c).nav, MoveToNextAttribute(E, C, c).nav}

\* the navigators a caller hands to MoveTo: a copy of the cursor made in the
\* same evaluation, one move away from where the cursor is or from where it
\* began; the cursor of an Evaluate call on some element; or a navigator of
\* another type
OtherNavigators(navigator) ==
  Neighbours(elems, cnodes, navigator)
    \cup Neighbours(elems, cnodes, NavAt(navigator.root))
    \cup {NavAt(r) : r \in 1..madeElems}
    \cup {ForeignNavigator}

\* a cursor call leaves the parser and the tree alone
NavFrame ==
  UNCHANGED <<streamNames, srcLen, frag, bufferSize, givenSize, releasing, once,
              ch, chanBuf, chanClosed, tasks, cancelled, pc, stack, depth,
              pending, pos, stopCause, elems, cnodes, xmlElementPool,
              xmlContentNodePool, madeElems, madeContent, returned, calls,
              nextSer, gstack, gparent, gname, gkids, gtag, gptr, closeLog,
              recvLog, sentAfterCancel, strCalls, nsMaps>>

\* the cursor after the call op that returned r.ok and left the cursor r.nav
Returned(op, r) ==
  /\ nav' = <<[cur |-> r.nav, op |-> op,
               ret |-> IF r.ok THEN "true" ELSE "false"]>>
  /\ NavFrame

\* XMLElement.Evaluate on a parsed element: the cursor the expression gets
EvaluateCall ==
  /\ pc = "done" /\ nav = <<>>
  /\ \E a \in 1..madeElems :
       nav' = <<[cur |-> NavAt(a), op |-> "Evaluate", ret |-> "none"]>>
  /\ NavFrame

\* the calls the expression makes on the cursor
MoveToRootCall ==
  /\ nav # <<>>
  /\ nav' = <<[cur |-> MoveToRoot(nav[1].cur), op |-> "MoveToRoot",
               ret |-> "none"]>>
  /\ NavFrame
MoveToParentCall ==
  /\ nav # <<>>
  /\ Returned("MoveToParent", MoveToParent(elems, cnodes, nav[1].cur))
MoveToChildCall ==
  /\ nav # <<>>
  /\ Returned("MoveToChild", MoveToChild(elems, cnodes, nav[1].cur))
MoveToFirstCall ==
  /\ nav # <<>>
  /\ Returned("MoveToFirst", MoveToFirst(elems, cnodes, nav[1].cur))
MoveToNextCall ==
  /\ nav # <<>>
  /\ Returned("MoveToNext", MoveToNext(elems, cnodes, nav[1].cur))
MoveToPreviousCall ==
  /\ nav # <<>>
  /\ Returned("MoveToPrevious", MoveToPrevious(elems, cnodes, nav[1].cur))
MoveToNextAttributeCall ==
  /\ nav # <<>>
  /\ Returned("MoveToNextAttribute",
              MoveToNextAttribute(elems, cnodes, nav[1].cur))
MoveToCall ==
  /\ nav # <<>>
  /\ \E other \in OtherNavigators(nav[1].cur) :
       LET r == MoveTo(nav[1].cur, other) IN
         nav' = <<[cur |-> r.nav, op |-> "MoveTo", arg |-> other,
                   ret |-> IF r.ok THEN "true" ELSE "false"]>>
  /\ NavFrame
NodeTypeCall ==
  /\ nav # <<>>
  /\ nav' = <<[cur |-> nav[1].cur, op |-> "NodeType",
               ret |-> NodeType(elems, cnodes, nav[1].cur)]>>
  /\ NavFrame

\* ----------------------------------------------------------- ElementString
\* What Evaluate can hand to ElementString: a node sequence ([]any), a string,
\* a number (float64), a boolean, or nothing.  A node of a sequence is an
\* element, a content node, the i-th attribute of an element, or a value of
\* some other type.
ARef(a, i) == <<"a", a, i>>
OtherRef == <<"o", 0>>
NodeRefs ==
  {ERef(a) : a \in 1..madeElems} \cup {CRef(k) : k \in 1..madeContent}
    \cup UNION {{ARef(a, i) : i \in DOMAIN elems[a].Attributes} : a \in 1..madeElems}
    \cup {OtherRef}
NodeSeqs ==
  {<<>>} \cup {<<n>> : n \in NodeRefs} \cup {<<n, m>> : n \in NodeRefs, m \in NodeRefs}
EvalResults ==
  {<<"nodes", ns>> : ns \in NodeSeqs}
    \cup {<<"string", b>> : b \in {<<>>, <<"a">>}}
    \cup {<<"number", n>> : n \in {0, 1}}
    \cup {<<"bool", b>> : b \in BOOLEAN}
    \cup {<<"nil", 0>>}

\* an ElementString that takes the last node of a sequence, not the first
ElementStringOfLast(E, C, input) ==
  IF input[1] = "nodes"
  THEN IF Len(input[2]) = 0 THEN <<>>
       ELSE LET elem == input[2][Len(input[2])] IN
            IF elem[1] = "e" THEN InnerText(E, C, elem[2])
            ELSE IF elem[1] = "c" THEN ContentInnerText(E, C, elem[2])
            ELSE IF elem[1] = "a" THEN E[elem[2]].Attributes[elem[3]].Value
            ELSE <<>>
  ELSE IF input[1] = "string" THEN input[2]
  ELSE <<>>

\* ElementString(input), with the nodes read from heap E, C
ElementString(E, C, input) ==
  IF input[1] = "nodes"
  THEN IF Len(input[2]) = 0 THEN <<>>
       ELSE LET elem == input[2][1] IN
            IF elem[1] = "e" THEN InnerText(E, C, elem[2])
            ELSE IF elem[1] = "c" THEN ContentInnerText(E, C, elem[2])
            ELSE IF elem[1] = "a" THEN E[elem[2]].Attributes[elem[3]].Value
            ELSE <<>>
  ELSE IF input[1] = "string" THEN input[2]
  ELSE <<>>

\* a caller passes one result over the parsed nodes to ElementString, after
\* the parse has ended
ElementStringCall ==
  /\ pc = "done" /\ strCalls = <<>>
  /\ \E input \in EvalResults :
       strCalls' = <<[arg |-> input, res |-> ElementString(elems, cnodes, input)]>>
  /\ UNCHANGED <<streamNames, srcLen, nav, frag, bufferSize, givenSize, releasing, once, ch,
                 chanBuf, chanClosed, tasks, cancelled, pc, stack, depth, pending,
                 pos, stopCause, elems, cnodes, xmlElementPool, xmlContentNodePool,
                 madeElems, madeContent, returned, calls, nextSer, gstack,
                 gparent, gname, gkids, gtag, gptr, closeLog, recvLog,
                 sentAfterCancel, nsMaps>>

\* --------------------------------------------------------------- consumers
\* a task that Stream() gave the channel to receives the oldest buffered element
Receive ==
  /\ returned # {}
  /\ chanBuf # <<>>
  /\ recvLog' = Append(recvLog, [ptr |-> ChanHead(chanBuf).ptr,
                                 ser |-> ChanHead(chanBuf).ser, released |-> FALSE])
  /\ chanBuf' = Tail(chanBuf)
  /\ UNCHANGED <<streamNames, srcLen, nav, frag, strCalls, nsMaps, bufferSize, givenSize, releasing, once, ch, chanClosed, tasks, cancelled,
                 pc, stack, depth, pending, pos, stopCause, elems, cnodes,
                 xmlElementPool, xmlContentNodePool, madeElems, madeContent,
                 returned, calls, nextSer, gstack, gparent, gname, gkids, gtag, gptr, closeLog,
                 sentAfterCancel>>

\* XMLElement.Release on the i-th received element, at most once per receipt
Release(i) ==
  /\ ~recvLog[i].released
  /\ LET r == returnElementToPool(<<recvLog[i].ptr>>, elems, xmlElementPool,
                                  xmlContentNodePool) IN
       /\ elems' = r.elems
       /\ xmlElementPool' = r.epool
       /\ xmlContentNodePool' = r.cpool
  /\ recvLog' = [recvLog EXCEPT ![i].released = TRUE]
  /\ UNCHANGED <<streamNames, srcLen, nav, frag, strCalls, nsMaps, bufferSize, givenSize, releasing, once, ch, chanBuf, chanClosed, tasks,
                 cancelled, pc, stack, depth, pending, pos, stopCause, cnodes,
                 madeElems, madeContent, returned, calls, nextSer, gstack,
                 gparent, gname, gkids, gtag, gptr, closeLog, sentAfterCancel>>

\* some consumer releases one of the elements it received and still holds
ReleaseAny == \E i \in DOMAIN recvLog : Release(i)

\* the element addresses in the child list of element a
Kids(a) ==
  {elems[a].children[i][2] :
     i \in {j \in DOMAIN elems[a].children : IsERef(elems[a].children[j])}}

\* the element addresses reachable from the set frontier through child lists
RECURSIVE Reach(_, _)
Reach(frontier, seen) ==
  IF frontier \subseteq seen THEN seen
  ELSE Reach(UNION {Kids(a) : a \in frontier \ seen}, seen \cup frontier)

Subtree(a) == Reach({a}, {})

\* the content node addresses in the child list of element a
ContentKids(a) ==
  {elems[a].children[i][2] :
     i \in {j \in DOMAIN elems[a].children : ~IsERef(elems[a].children[j])}}

ContentOf(S) == UNION {ContentKids(a) : a \in S}

\* Release by a task of its own, after the parse has ended and everything was
\* received: returnElementToPool starts with the element on its work-list.
\* nodes and content record the subtree as it is at the call.
ReleaseBegin(i) ==
  /\ pc = "done" /\ chanBuf = <<>>
  /\ ~recvLog[i].released
  /\ recvLog' = [recvLog EXCEPT ![i].released = TRUE]
  /\ releasing' = Append(releasing,
       [of |-> i, stack |-> <<recvLog[i].ptr>>,
        nodes |-> Subtree(recvLog[i].ptr),
        content |-> ContentOf(Subtree(recvLog[i].ptr))])
  /\ UNCHANGED <<streamNames, srcLen, nav, frag, strCalls, nsMaps, bufferSize, givenSize, once, ch, chanBuf,
                 chanClosed, tasks, cancelled, pc, stack, depth, pending, pos,
                 stopCause, elems, cnodes, xmlElementPool, xmlContentNodePool,
                 madeElems, madeContent, returned, calls, nextSer, gstack,
                 gparent, gname, gkids, gtag, gptr, closeLog, sentAfterCancel>>

\* one iteration of returnElementToPool's loop in release task t
ReleaseStep(t) ==
  /\ releasing[t].stack # <<>>
  /\ LET r == ReturnStep(releasing[t].stack, elems, xmlElementPool,
                         xmlContentNodePool) IN
       /\ releasing' = [releasing EXCEPT ![t].stack = r.stack]
       /\ elems' = r.elems
       /\ xmlElementPool' = r.epool
       /\ xmlContentNodePool' = r.cpool
  /\ UNCHANGED <<streamNames, srcLen, nav, frag, strCalls, nsMaps, bufferSize, givenSize, once, ch, chanBuf,
                 chanClosed, tasks, cancelled, pc, stack, depth, pending, pos,
                 stopCause, cnodes, madeElems, madeContent, returned, calls,
                 nextSer, gstack, gparent, gname, gkids, gtag, gptr, closeLog, recvLog,
                 sentAfterCancel>>

\* some task calls Release on an element it holds
ReleaseBeginAny == \E i \in DOMAIN recvLog : ReleaseBegin(i)

\* some release task in progress runs one iteration
ReleaseStepAny == \E t \in DOMAIN releasing : ReleaseStep(t)

\* the steps of the parse goroutine
Producer == StartEvent \/ EndEvent \/ BreakLoop \/ Send \/ CloseChan

Next ==
  \/ Stream
  \/ Cancel
  \/ StartEvent
  \/ EndEvent
  \/ BreakLoop
  \/ Send
  \/ CloseChan
  \/ Receive
  \/ ReleaseAny

\* documents of tags, any target set, any interleaving of the producer with
\* cancellation and with consumers that receive and release
Spec == Init /\ [][Next]_vars

\* a longer document, targets {item}, default buffer, no cancellation
InitDeep ==
  /\ Constructed({Item}, 0)
  /\ srcLen = MaxEvents + 3
  /\ Fresh

NextDeep ==
  \/ Stream
  \/ StartEvent
  \/ EndEvent
  \/ BreakLoop
  \/ Send
  \/ CloseChan
  \/ Receive
  \/ ReleaseAny

SpecDeep == InitDeep /\ [][NextDeep]_vars

\* every name a target, a buffer size argument that is negative, zero or
\* small, no cancellation: the channel fills
InitCap ==
  /\ \E size \in CapSizes : Constructed(Names, size)
  /\ srcLen = MaxEvents
  /\ Fresh

SpecCap == InitCap /\ [][NextDeep]_vars

\* documents of tags with an attribute and of text, targets {item}, consumers
\* that receive and release while the parser runs
InitRel ==
  /\ Constructed({Item}, 0)
  /\ srcLen = MaxEvents + 1
  /\ Fresh

NextRel ==
  \/ Stream
  \/ AttrStartEvent
  \/ EndEvent
  \/ TextEvent
  \/ BreakLoop
  \/ Send
  \/ CloseChan
  \/ Receive
  \/ ReleaseAny

SpecRel == InitRel /\ [][NextRel]_vars

\* the parse of a document with text, targets {item}, everything received;
\* then every holder releases in a task of its own, the tasks interleaved
\* iteration by iteration
NextConc ==
  \/ Stream
  \/ StartEvent
  \/ EndEvent
  \/ TextEvent
  \/ BreakLoop
  \/ Send
  \/ CloseChan
  \/ Receive
  \/ ReleaseBeginAny
  \/ ReleaseStepAny

SpecConc == InitRel /\ [][NextConc]_vars

\* the trees the parser assembles from documents of tags, text, CDATA and
\* comments, targets {item}, seen before any consumer acts
NextTree ==
  \/ Stream
  \/ StartEvent
  \/ EndEvent
  \/ TextEvent
  \/ CDataEvent
  \/ CommentEvent
  \/ BreakLoop
  \/ Send
  \/ CloseChan

SpecTree == InitRel /\ [][NextTree]_vars

\* documents of prefixed and unprefixed tags with namespace declarations,
\* targets {item}, seen before any consumer acts; the element pool is empty or
\* holds a used element
InitNs ==
  /\ Constructed({Item}, 0)
  /\ srcLen = MaxEvents
  /\ Unstarted
  /\ (EmptyPool \/ UsedPool)

NextNs ==
  \/ Stream
  \/ NsStartEvent
  \/ EndEvent
  \/ BreakLoop
  \/ Send
  \/ CloseChan

SpecNs == InitNs /\ [][NextNs]_vars

\* documents of tags with and without an attribute, self-closing or closed by
\* an end tag, targets {item}, seen before any consumer acts
InitForm ==
  /\ Constructed({Item}, 0)
  /\ srcLen = MaxEvents + 1
  /\ Unstarted
  /\ (EmptyPool \/ UsedPool)

NextForm ==
  \/ Stream
  \/ StartEvent
  \/ AttrStartEvent
  \/ EndEvent
  \/ BreakLoop
  \/ Send
  \/ CloseChan

SpecForm == InitForm /\ [][NextForm]_vars

\* the parse goroutine scheduled fairly: it is never starved while it can take
\* a step (a send it is blocked in is not a step it can take); the target set
\* is empty, or {item} with a channel of capacity 1
InitFair ==
  /\ \/ \E size \in BufferSizes : Constructed({}, size)
     \/ Constructed({Item}, 1)
  /\ srcLen = MaxEvents
  /\ Fresh

\* the trees of documents of tags with an attribute, text and comments, and
\* one ElementString call on a result over their nodes
InitStr ==
  /\ Constructed({Item}, 0)
  /\ srcLen = MaxEvents
  /\ Fresh

NextStr ==
  \/ Stream
  \/ AttrStartEvent
  \/ EndEvent
  \/ TextEvent
  \/ CommentEvent
  \/ BreakLoop
  \/ Send
  \/ CloseChan
  \/ ElementStringCall

SpecStr == InitStr /\ [][NextStr]_vars

\* a document of elements with two attributes or none, text and comments is
\* parsed whole; then an expression is evaluated on one of its elements
InitNav ==
  /\ Constructed({Item}, 0)
  /\ srcLen = MaxEvents
  /\ Fresh

NextNav ==
  \/ Stream
  \/ NavStartEvent
  \/ EndEvent
  \/ NavContentEvent
  \/ BreakLoop
  \/ Send
  \/ CloseChan
  \/ EvaluateCall
  \/ MoveToRootCall
  \/ MoveToParentCall
  \/ MoveToChildCall
  \/ MoveToFirstCall
  \/ MoveToNextCall
  \/ MoveToPreviousCall
  \/ MoveToNextAttributeCall
  \/ MoveToCall
  \/ NodeTypeCall

SpecNav == InitNav /\ [][NextNav]_vars

\* documents whose start tags all carry the same attribute bytes, drawn from
\* the well-formed and malformed pieces
InitScan ==
  /\ Constructed({Item}, 0)
  /\ srcLen = MaxEvents - 1
  /\ \E f \in Frags : UnstartedOn(f)
  /\ EmptyPool

NextScan ==
  \/ Stream
  \/ FragStartEvent
  \/ EndEvent
  \/ BreakLoop
  \/ Send
  \/ CloseChan

SpecScan == InitScan /\ [][NextScan]_vars

FairSpec == InitFair /\ [][Next]_vars /\ WF_vars(Producer)

\* ------------------------------------------------------------ the claims
\* the serials of a sequence of channel or receive records
Sers(seq) == [i \in DOMAIN seq |-> seq[i].ser]

\* the serials closed so far whose start tag carried a target name, in order
TargetClosed == SelectSeq(closeLog, LAMBDA s : gname[s] \in streamNames)

\* the serials of every element handed to the channel so far, in order:
\* received, buffered, and the one whose send is in progress
EmittedSers ==
  Sers(recvLog) \o Sers(chanBuf) \o (IF pc = "send" THEN <<pending.ser>> ELSE <<>>)

\* the parse ran to the end of its input, uncancelled, and the consumer has
\* received everything
DrainedAtEof == stopCause = "eof" /\ pc = "done" /\ chanBuf = <<>>

\* C1: after a parse to end of input without cancellation, with everything
\* received, the elements received are exactly the elements of the document
\* whose start tag named a stream target and that were closed, one per close,
\* none lost, none duplicated; and nothing else is ever handed to the channel.
C1_ExactlyTargets ==
  /\ DrainedAtEof => Sers(recvLog) = TargetClosed
  /\ \A i \in DOMAIN EmittedSers : gname[EmittedSers[i]] \in streamNames

\* C2: elements are delivered in closing order.  Of two received elements the
\* earlier one was closed earlier, it is never an ancestor of the later one
\* (inner before outer), and when neither contains the other the earlier one
\* started earlier in the document (siblings left to right); each delivered
\* object is the one acquired for the element that was closed.
RECURSIVE IsAncestor(_, _)
IsAncestor(a, d) ==
  /\ gparent[d] # 0
  /\ (gparent[d] = a \/ IsAncestor(a, gparent[d]))

ClosePos(s) == CHOOSE k \in DOMAIN closeLog : closeLog[k] = s

C2_ClosingOrder ==
  /\ \A i, j \in DOMAIN recvLog :
       i < j =>
         LET a == recvLog[i].ser
             b == recvLog[j].ser
         IN /\ ClosePos(a) < ClosePos(b)
            /\ ~IsAncestor(a, b)
            /\ (IsAncestor(b, a) \/ a < b)
  /\ \A i \in DOMAIN recvLog : recvLog[i].ptr = gptr[recvLog[i].ser]

\* a target nested in a target: both received, the inner one first
C2_Witness ==
  \E i, j \in DOMAIN recvLog : i < j /\ IsAncestor(recvLog[j].ser, recvLog[i].ser)

\* C3: every call of Stream() returns the one channel, exactly one parse task
\* is started however often Stream() is called, and no element is handed to
\* the channel twice.
C3_StreamIdempotent ==
  /\ Cardinality(returned) <= 1
  /\ tasks <= 1
  /\ calls > 0 => (returned = {ch} /\ ch # 0 /\ tasks = 1)
  /\ \A i, j \in DOMAIN EmittedSers : i # j => EmittedSers[i] # EmittedSers[j]

\* Stream() was called at least twice and elements were delivered
C3_Witness == calls = 2 /\ Len(recvLog) >= 2

\* C4: before the first call of Stream() no event has been read, no node has
\* been acquired and no parse task exists.
C4_NoParseBeforeStream ==
  calls = 0 =>
    /\ pos = 0 /\ madeElems = 0 /\ madeContent = 0
    /\ pc = "idle" /\ tasks = 0 /\ ch = 0
    /\ stack = <<>> /\ closeLog = <<>>

\* a constructed parser with input to read, left alone while the context is
\* cancelled: Stream() has not been called
C4_Witness == calls = 0 /\ cancelled /\ srcLen > 0

\* C5: with an empty (or nil) target set nothing is ever handed to the
\* channel, and once the parse task runs the channel does get closed.
C5_EmptyTargets ==
  /\ [](streamNames = {} => (EmittedSers = <<>> /\ pc # "send"))
  /\ ((streamNames = {} /\ pc = "loop") ~> (chanClosed = 1 /\ pc = "done"))

\* an empty target set, elements were closed, the input ended, channel closed
C5_Witness ==
  /\ streamNames = {} /\ Len(closeLog) >= 2
  /\ stopCause = "eof" /\ chanClosed = 1

\* the subtrees of the emitted elements other than the i-th received one that
\* are still with the channel or with a consumer
OtherEmitted(i) ==
  {recvLog[j].ptr : j \in {k \in DOMAIN recvLog : k # i /\ ~recvLog[k].released}}
    \cup {chanBuf[j].ptr : j \in DOMAIN chanBuf}
    \cup (IF pc = "send" THEN {pending.ptr} ELSE {})

\* C6: a received, unreleased element and its subtree are reachable from no
\* open element of the producer and from no other emitted element.
C6_ExclusiveOwnership ==
  \A i \in DOMAIN recvLog :
    ~recvLog[i].released =>
      /\ Subtree(recvLog[i].ptr) \cap Reach({stack[k] : k \in DOMAIN stack}, {}) = {}
      /\ \A q \in OtherEmitted(i) : Subtree(recvLog[i].ptr) \cap Subtree(q) = {}

\* C7: an emitted element has a nil parent when it is sent, while it is in
\* the channel, and while its consumer holds it unreleased.
C7_EmittedParentNil ==
  /\ pc = "send" => elems[pending.ptr].parent = 0
  /\ \A i \in DOMAIN chanBuf : elems[chanBuf[i].ptr].parent = 0
  /\ \A i \in DOMAIN recvLog :
       ~recvLog[i].released => elems[recvLog[i].ptr].parent = 0

\* C8: once the source reported end of input or a read error the producer is
\* out of its loop; when the channel is then closed and drained, every closed
\* element of the document with a target name has been delivered, the channel
\* was closed once, and only elements came through it.
C8_StopDeliversAll ==
  /\ stopCause \in {"eof", "err"} => pc \in {"ret", "done"}
  /\ (stopCause \in {"eof", "err"} /\ pc = "done" /\ chanBuf = <<>>) =>
       /\ \A k \in DOMAIN TargetClosed :
            \E i \in DOMAIN recvLog : recvLog[i].ser = TargetClosed[k]
       /\ chanClosed = 1
       /\ \A i \in DOMAIN recvLog : recvLog[i].ptr \in Addr

C10_SendInterruptible == (cancelled /\ pc = "send") => ENABLED Producer

\* C11 as stated, second half: whenever the channel is full the producer
\* handles no further event.
C11_FullChannelStopsEvents ==
  Len(chanBuf) = bufferSize => ~ENABLED (StartEvent \/ EndEvent \/ BreakLoop)

\* C11, amended: the elements enqueued and not yet received never exceed the
\* effective capacity, which is the bufferSize argument when positive and 8
\* otherwise; a producer whose send meets a full channel takes no step at all
\* until a consumer receives, and a receive lets that send proceed.
C11_CapacityBound ==
  /\ Len(chanBuf) <= bufferSize
  /\ bufferSize = (IF givenSize > 0 THEN givenSize ELSE 8)
  /\ (pc = "send" /\ Len(chanBuf) = bufferSize) =>
       (~ENABLED Producer /\ (returned # {} => ENABLED Receive))
  /\ (pc = "send" /\ Len(chanBuf) < bufferSize) => ENABLED Send

\* a channel of capacity 2 is full and the producer is suspended in a send
C11_Witness ==
  givenSize = 2 /\ Len(chanBuf) = 2 /\ pc = "send" /\ bufferSize = 2

\* a pooled element as returnElementToPool leaves it
IsCleared(e) ==
  /\ e.children = <<>> /\ e.Attributes = <<>> /\ e.rawContent = <<>>
  /\ e.parent = 0 /\ e.namespaces = NilMap /\ e.siblingIndex = 0

\* C12: a Release of a received element puts into the element pool that
\* element and every element below it, target or not, each with empty
\* children, attributes and content buffer, nil parent and namespace scope and
\* sibling index 0, and puts into the content pool every content node below it.
C12_ReleaseReturnsSubtree ==
  [][\A i \in DOMAIN recvLog :
       (~recvLog[i].released /\ recvLog'[i].released) =>
         /\ \A a \in Subtree(recvLog[i].ptr) :
              xmlElementPool'[a] > xmlElementPool[a] /\ IsCleared(elems'[a])
         /\ \A k \in ContentOf(Subtree(recvLog[i].ptr)) :
              xmlContentNodePool'[k] > xmlContentNodePool[k]]_vars

\* one Release has returned an element, an element below it and a content node
C12_Witness ==
  /\ Len(recvLog) = 1 /\ recvLog[1].released
  /\ Cardinality({a \in Addr : xmlElementPool[a] > 0}) >= 2
  /\ \E k \in CAddr : xmlContentNodePool[k] > 0

\* C13: with consumers that release each received element at most once and
\* nothing else, no element and no content node is put into its pool while it
\* is already there.
C13_NoDoublePut ==
  /\ \A a \in Addr : xmlElementPool[a] <= 1
  /\ \A k \in CAddr : xmlContentNodePool[k] <= 1

\* every received element's subtree: as recorded when its release began, as
\* it is now when not yet released
NodesOf(i) ==
  IF \E t \in DOMAIN releasing : releasing[t].of = i
  THEN (CHOOSE r \in {releasing[t] : t \in DOMAIN releasing} : r.of = i).nodes
  ELSE Subtree(recvLog[i].ptr)

\* the received elements have pairwise disjoint subtrees
DisjointSubtrees ==
  \A i, j \in DOMAIN recvLog : i # j => NodesOf(i) \cap NodesOf(j) = {}

\* the elements some release in progress or finished has walked or will walk
ReleasedNodes == UNION {releasing[t].nodes : t \in DOMAIN releasing}

\* C14: when elements with pairwise disjoint subtrees are released by
\* concurrent tasks, under every interleaving no node is ever in its pool more
\* than once, each finished task has put every element and content node of
\* its subtree into the pool exactly once, and no step of a release changes an
\* element outside the subtrees being released.
C14_ConcurrentRelease ==
  /\ [](DisjointSubtrees =>
         /\ \A a \in Addr : xmlElementPool[a] <= 1
         /\ \A k \in CAddr : xmlContentNodePool[k] <= 1
         /\ \A t \in DOMAIN releasing :
              releasing[t].stack = <<>> =>
                /\ \A a \in releasing[t].nodes :
                     xmlElementPool[a] = 1 /\ IsCleared(elems[a])
                /\ \A k \in releasing[t].content : xmlContentNodePool[k] = 1)
  /\ [][(DisjointSubtrees /\ releasing # <<>>) =>
         \A a \in Addr \ ReleasedNodes' : elems'[a] = elems[a]]_vars

\* two releases of disjoint subtrees are both in progress, one of them has
\* already put its element back and has the element below it still to do
C14_Witness ==
  /\ DisjointSubtrees
  /\ Cardinality({t \in DOMAIN releasing : releasing[t].stack # <<>>}) >= 2
  /\ \E t \in DOMAIN releasing :
       /\ Cardinality(releasing[t].nodes) >= 2
       /\ xmlElementPool[recvLog[releasing[t].of].ptr] = 1

\* the serials of the elements started so far, and of those closed
Serials == DOMAIN gptr
ClosedSerials == {closeLog[i] : i \in DOMAIN closeLog}

\* raw with the delimiters open and close taken off its ends
StripDelims(raw, open, close) ==
  IF /\ Len(raw) >= Len(open) + Len(close)
     /\ SubSeq(raw, 1, Len(open)) = open
     /\ SubSeq(raw, Len(raw) - Len(close) + 1, Len(raw)) = close
  THEN SubSeq(raw, Len(open) + 1, Len(raw) - Len(close))
  ELSE raw

\* the document's text below a sequence of recorded events: text runs as they
\* are, CDATA sections without their delimiters, elements by their own
\* content, comments not at all
RECURSIVE RefText(_)
RefText(evs) ==
  IF evs = <<>> THEN <<>>
  ELSE (CASE Head(evs).kind = "text" -> Head(evs).bytes
          [] Head(evs).kind = "cdata" ->
               StripDelims(Head(evs).bytes, CDataOpen, CDataClose)
          [] Head(evs).kind = "comment" -> <<>>
          [] Head(evs).kind = "elem" -> RefText(gkids[Head(evs).ser]))
       \o RefText(Tail(evs))

\* the raw bytes of a sequence of recorded content events
RECURSIVE RawBytes(_)
RawBytes(evs) ==
  IF evs = <<>> THEN <<>> ELSE Head(evs).bytes \o RawBytes(Tail(evs))

\* the recorded events of serial s of one kind
EventsOfKind(s, kind) == SelectSeq(gkids[s], LAMBDA e : e.kind = kind)

\* the comment-kind child nodes of the element at address a
CommentKids(a) ==
  SelectSeq(elems[a].children,
            LAMBDA r : ~IsERef(r) /\ cnodes[r[2]].nodeType = CommentNode)

\* C15: the inner text of an element with comment children holds no comment
\* bytes (it is the text of the document with the comments left out), also
\* when the element has no element child, and each non-empty comment is
\* present as a comment-kind child node with the comment's bytes.
C15_CommentsExcluded ==
  \A s \in Serials :
    EventsOfKind(s, "comment") # <<>> =>
      /\ InnerText(elems, cnodes, gptr[s]) = RefText(gkids[s])
      /\ LET cs == SelectSeq(EventsOfKind(s, "comment"),
                             LAMBDA e : StripDelims(e.bytes, CommentOpen,
                                                    CommentClose) # <<>>)
         IN /\ Len(CommentKids(gptr[s])) = Len(cs)
            /\ \A i \in DOMAIN cs :
                 ContentInnerText(elems, cnodes, CommentKids(gptr[s])[i][2])
                   = StripDelims(cs[i].bytes, CommentOpen, CommentClose)

\* C16: the inner text of every element is the concatenation, in document
\* order, of the text and CDATA runs of the element and of everything below
\* it, on the fast path and on the recursive path alike.
C16_InnerTextIsTextRuns ==
  \A s \in Serials : InnerText(elems, cnodes, gptr[s]) = RefText(gkids[s])

CDataStep ==
  /\ gstack # <<>> /\ gstack' = gstack
  /\ Len(gkids'[Last(gstack)]) = Len(gkids[Last(gstack)]) + 1
  /\ Last(gkids'[Last(gstack)]).kind = "cdata"

\* C18: a CDATA event gives the innermost open element exactly its bytes
\* without the opening and the closing delimiter, appended to the content
\* buffer and held by one new text-kind child node; an empty CDATA section
\* adds no node and leaves the element and its inner text as they were.
C18_CDataStripsDelimiters ==
  [][CDataStep =>
       LET a == StackTop(stack)
           interior == StripDelims(Last(gkids'[Last(gstack)]).bytes,
                                   CDataOpen, CDataClose)
       IN IF interior = <<>>
          THEN /\ elems' = elems /\ cnodes' = cnodes
               /\ InnerText(elems', cnodes', a) = InnerText(elems, cnodes, a)
          ELSE /\ elems'[a].rawContent = elems[a].rawContent \o interior
               /\ Len(elems'[a].children) = Len(elems[a].children) + 1
               /\ SubSeq(elems'[a].children, 1, Len(elems[a].children))
                    = elems[a].children
               /\ ~IsERef(Last(elems'[a].children))
               /\ cnodes'[Last(elems'[a].children)[2]].nodeType = TextNode
               /\ ContentInnerText(elems', cnodes', Last(elems'[a].children)[2])
                    = interior]_vars

\* an element holds a text-kind node with the interior of a CDATA section,
\* markup bytes included, and an empty CDATA section that added nothing
C18_Witness ==
  \E s \in Serials :
    /\ Len(gkids[s]) = 2
    /\ gkids[s][1].kind = "cdata" /\ gkids[s][2].kind = "cdata"
    /\ gkids[s][2].bytes = CDataOpen \o CDataClose
    /\ Len(elems[gptr[s]].children) = 1
    /\ InnerText(elems, cnodes, gptr[s]) = <<"<", "&">>

\* the prefix a name of the documents is written with
TruthPrefix(name) == IF name = NC THEN <<"n">> ELSE <<>>

\* the URI the document binds prefix to at serial s: the declaration of the
\* nearest enclosing element, s included; the empty string without one
RECURSIVE Resolve(_, _)
Resolve(s, prefix) ==
  IF s = 0 THEN <<>>
  ELSE IF \E d \in gtag[s].decls : d[1] = prefix
  THEN (CHOOSE d \in gtag[s].decls : d[1] = prefix)[2]
  ELSE Resolve(gparent[s], prefix)

ClosedEmpty ==
  {s \in Serials : gkids[s] = <<>> /\ \A i \in DOMAIN gstack : gstack[i] # s}

\* the serials handed to the channel so far
Emitted == {EmittedSers[i] : i \in DOMAIN EmittedSers}

\* the place of serial s among what its enclosing element contains
KidIndex(s) ==
  CHOOSE i \in DOMAIN gkids[gparent[s]] :
    gkids[gparent[s]][i].kind = "elem" /\ gkids[gparent[s]][i].ser = s

\* what can be observed of the closed empty element s, stated without regard
\* to the form it was written in
ObservedAsWritten(s) ==
  LET a == gptr[s]
      p == gparent[s]
  IN /\ elems[a].Name = gname[s]
     /\ elems[a].Attributes = gtag[s].alist
     /\ elems[a].children = <<>>
     /\ InnerText(elems, cnodes, a) = <<>>
     /\ IF p = 0 THEN elems[a].siblingIndex = 0
        ELSE /\ elems[gptr[p]].children[KidIndex(s)] = ERef(a)
             /\ elems[a].siblingIndex = KidIndex(s) - 1
     /\ (s \in Emitted) = (streamNames # {} /\ gname[s] \in streamNames)
     /\ elems[a].parent = (IF s \in Emitted \/ p = 0 THEN 0 ELSE gptr[p])

\* C20: a self-closing tag and a start tag followed at once by its end tag
\* leave the same assembler state (the stack holds exactly the elements the
\* document has open, the depth is their number) and the same element: name,
\* attributes, no children, empty inner text, place in the parent's child
\* list and emission decision depend on the tag's name, attributes and
\* position only, not on the form.
C20_SelfClosingEquivalence ==
  /\ stack = [i \in DOMAIN gstack |-> gptr[gstack[i]]]
  /\ pc # "send" => depth = Len(gstack)
  /\ \A s \in ClosedEmpty : ObservedAsWritten(s)
  /\ \A s, t \in ClosedEmpty :
       (gtag[s].empty /\ ~gtag[t].empty /\ gname[s] = gname[t]
          /\ gtag[s].attrs = gtag[t].attrs) =>
         /\ elems[gptr[s]].Name = elems[gptr[t]].Name
         /\ elems[gptr[s]].localName = elems[gptr[t]].localName
         /\ elems[gptr[s]].Attributes = elems[gptr[t]].Attributes
         /\ elems[gptr[s]].children = elems[gptr[t]].children
         /\ (s \in Emitted) = (t \in Emitted)

\* under <root>, <item a="1"/> and <item a="1"></item> were both closed and
\* both sent
C20_Witness ==
  \E s, t \in ClosedEmpty :
    /\ gtag[s].empty /\ ~gtag[t].empty
    /\ gname[s] = Item /\ gname[t] = Item
    /\ gtag[s].attrs = OneAttr /\ gtag[t].attrs = OneAttr
    /\ gparent[s] # 0 /\ gparent[t] = gparent[s]
    /\ {s, t} \subseteq {chanBuf[i].ser : i \in DOMAIN chanBuf}
    /\ pc = "loop"

\* C21: ElementString gives, for a non-empty node sequence, the inner text of
\* the first node when that is an element or a content node and the value
\* when it is an attribute; the empty string for an empty sequence; a string
\* itself; and the empty string for everything else, numbers and booleans
\* included.
C21_ElementString ==
  \A i \in DOMAIN strCalls :
    LET kind == strCalls[i].arg[1]
        v == strCalls[i].arg[2]
        res == strCalls[i].res
    IN /\ (kind = "nodes" /\ v = <<>>) => res = <<>>
       /\ (kind = "nodes" /\ v # <<>>) =>
            /\ v[1][1] = "e" => res = InnerText(elems, cnodes, v[1][2])
            /\ v[1][1] = "c" => res = ContentInnerText(elems, cnodes, v[1][2])
            /\ v[1][1] = "a" => res = elems[v[1][2]].Attributes[v[1][3]].Value
            /\ v[1][1] = "o" => res = <<>>
       /\ kind = "string" => res = v
       /\ kind \in {"number", "bool", "nil"} => res = <<>>

\* ElementString was given an attribute followed by an element that has text,
\* and returned the attribute's value
C21_Witness ==
  \E i \in DOMAIN strCalls :
    LET v == strCalls[i].arg[2] IN
    /\ strCalls[i].arg[1] = "nodes" /\ Len(v) = 2
    /\ v[1][1] = "a" /\ v[2][1] = "e"
    /\ InnerText(elems, cnodes, v[2][2]) = <<"a">>
    /\ strCalls[i].res = <<"1">>

\* the sibling index a node reference carries
SiblingIndexOf(r) ==
  IF IsERef(r) THEN elems[r[2]].siblingIndex ELSE cnodes[r[2]].siblingIndex

\* the elements a consumer holds: received and not released
Held == {recvLog[i].ptr : i \in {j \in DOMAIN recvLog : ~recvLog[j].released}}

\* C22: in every tree a reader can observe (a received, unreleased element
\* and everything below it) the i-th child of every element has sibling index
\* i, while consumers release the elements they received earlier and the
\* parser reuses pooled nodes.
C22_SiblingIndex ==
  \A h \in Held : \A p \in Subtree(h) :
    \A i \in DOMAIN elems[p].children :
      SiblingIndexOf(elems[p].children[i]) = i - 1

\* the elements the program still uses: the open elements, the emitted
\* elements not yet released, and everything below them
LiveRoots ==
  {stack[i] : i \in DOMAIN stack} \cup Held
    \cup {chanBuf[i].ptr : i \in DOMAIN chanBuf}
    \cup (IF pc = "send" THEN {pending.ptr} ELSE {})

LiveElems == Reach(LiveRoots, {})

\* node reference r is in the child list of element p at index i (0-based)
ChildAt(p, i, r) ==
  i + 1 \in DOMAIN elems[p].children /\ elems[p].children[i + 1] = r

EmittedPtrs ==
  Held \cup {chanBuf[i].ptr : i \in DOMAIN chanBuf}
    \cup (IF pc = "send" THEN {pending.ptr} ELSE {})

\* C24: in every emitted subtree every node in the child list of an element
\* e has e as its parent, and a MoveToChild from e that succeeds is undone by
\* MoveToParent; also when the emitted element holds descendants that are
\* stream targets themselves.
C24_ChildParent ==
  \A h \in EmittedPtrs : \A e \in Subtree(h) :
    /\ \A i \in DOMAIN elems[e].children :
         ParentOf(elems, cnodes, elems[e].children[i]) = e
    /\ LET down == MoveToChild(elems, cnodes, NavAt(e)) IN
       down.ok =>
         LET up == MoveToParent(elems, cnodes, down.nav) IN
         up.ok /\ up.nav = NavAt(e)

\* how often node reference r occurs in the child lists of the live elements
RefCount(r) ==
  Cardinality({<<p, i>> \in LiveElems \X (1..(MaxEvents + 3)) :
                 i \in DOMAIN elems[p].children /\ elems[p].children[i] = r})

\* C25: no node that is in a pool is referenced from a live tree: after a
\* Release neither the released element nor anything that was below it is in
\* the child list of an open element or of an emitted, unreleased element;
\* and no node is in two places of the live trees.
C25_PooledNotReferenced ==
  /\ \A a \in Addr : xmlElementPool[a] > 0 => RefCount(ERef(a)) = 0
  /\ \A k \in CAddr : xmlContentNodePool[k] > 0 => RefCount(CRef(k)) = 0
  /\ \A a \in Addr : RefCount(ERef(a)) <= 1
  /\ \A k \in CAddr : RefCount(CRef(k)) <= 1

\* C26: every element the assembler acquires from the pool has, at the moment
\* of the acquisition, an empty child list, an empty attribute list and an
\* empty content buffer, in every run where each emitted element is released
\* at most once.
C26_AcquiredClean ==
  [][nextSer' = nextSer + 1 =>
       LET a == gptr'[nextSer] IN
       /\ elems[a].children = <<>>
       /\ elems[a].Attributes = <<>>
       /\ elems[a].rawContent = <<>>]_vars

\* C27: an element is sent only in its own close handling (its end tag or
\* its self-closing start tag); an element the document still has open is
\* never sent, so none of the elements that are open when the parse stops at
\* end of input, on a read error or on cancellation has been sent, target
\* name or not.
C27_SentOnlyAtClose ==
  /\ pc = "send" =>
       /\ closeLog # <<>> /\ pending.ser = Last(closeLog)
       /\ pending.ptr = gptr[pending.ser]
  /\ \A i \in DOMAIN EmittedSers : EmittedSers[i] \in ClosedSerials
  /\ \A i \in DOMAIN gstack : gstack[i] \notin Emitted
  /\ pc \in {"ret", "done"} =>
       \A i \in DOMAIN stack :
         \E j \in DOMAIN gstack : gptr[gstack[j]] = stack[i] /\ gstack[j] \notin Emitted

\* the parse stopped on a read error or a cancellation with a target element
\* open, after another target element was closed and sent
C27_Witness ==
  /\ stopCause \in {"err", "cancel"} /\ pc = "done"
  /\ stack # <<>> /\ Emitted # {}
  /\ \E i \in DOMAIN gstack : gname[gstack[i]] \in streamNames

\* C28: an end-tag event that meets an empty stack changes nothing: the stack
\* stays empty, the depth is what it was, no node is made, acquired or
\* changed, and nothing is sent.
C28_UnmatchedEndIgnored ==
  [][(Len(stack) = 0 /\ EndEvent) =>
       /\ stack' = <<>> /\ depth' = depth
       /\ elems' = elems /\ cnodes' = cnodes
       /\ madeElems' = madeElems /\ madeContent' = madeContent
       /\ xmlElementPool' = xmlElementPool
       /\ xmlContentNodePool' = xmlContentNodePool
       /\ chanBuf' = chanBuf /\ pending' = pending /\ pc' = "loop"
       /\ closeLog' = closeLog]_vars

\* one element was opened and closed, the two events after it were end tags
\* that met an empty stack, and the parser is back in its loop
C28_Witness ==
  /\ pos = 3 /\ nextSer = 2 /\ Len(closeLog) = 1
  /\ stack = <<>> /\ depth = 0 /\ pc = "loop"
  /\ ~gtag[1].empty

\* C29: an end-tag event closes the innermost open element, whatever name
\* the end tag carries (the handler is not given it); the element is sent
\* exactly when the name of its own start tag is a stream target; and after
\* every event the depth counter equals the length of the stack.
C29_EndClosesInnermost ==
  /\ [](pc \in {"loop", "ret", "done"} => depth = Len(stack))
  /\ [][(Len(stack) > 0 /\ EndEvent) =>
         /\ stack' = Front(stack)
         /\ closeLog' = Append(closeLog, Last(gstack))
         /\ StackTop(stack) = gptr[Last(gstack)]
         /\ (pc' = "send") = (gname[Last(gstack)] \in streamNames)
         /\ pc' = "send" => pending'.ptr = StackTop(stack)]_vars

\* the namespace map the element of serial s references, and its entries
MapOf(s) == elems[gptr[s]].namespaces
EntriesOf(m) == IF m = NilMap THEN {} ELSE nsMaps[m]

\* C30: a namespace map is never written once an element references it; an
\* element without declarations references the very map of its parent (none
\* when the parent has none), and an element with declarations references a
\* map of its own, made for it, that holds the parent's entries overlaid with
\* its declarations, while the parent's map stays as it was.
C30_CopyOnWrite ==
  /\ [][\A m \in DOMAIN nsMaps : nsMaps'[m] = nsMaps[m]]_vars
  /\ [](\A s \in Serials :
          LET up == IF gparent[s] = 0 THEN NilMap ELSE MapOf(gparent[s]) IN
          IF gtag[s].decls = {}
          THEN MapOf(s) = up
          ELSE /\ MapOf(s) \in DOMAIN nsMaps
               /\ MapOf(s) # up
               /\ \A t \in Serials : t < s => MapOf(t) # MapOf(s)
               /\ \A e \in EntriesOf(up) \cup gtag[s].decls \cup nsMaps[MapOf(s)] :
                    e \in nsMaps[MapOf(s)] <=>
                      \/ e \in gtag[s].decls
                      \/ /\ e \in EntriesOf(up)
                         /\ \A d \in gtag[s].decls : d[1] # e[1])

\* an element under a parent with a map declares a namespace and gets a map
\* of two entries, and its child without declarations shares that map
C30_Witness ==
  \E s, t \in Serials :
    /\ gparent[s] # 0 /\ MapOf(gparent[s]) # NilMap
    /\ gtag[s].decls # {} /\ Cardinality(nsMaps[MapOf(s)]) = 2
    /\ gparent[t] = s /\ gtag[t].decls = {} /\ MapOf(t) = MapOf(s)

\* the content nodes of the element at address a, in child order
ContentSeq(a) ==
  LET refs == SelectSeq(elems[a].children, LAMBDA r : ~IsERef(r))
  IN [i \in DOMAIN refs |-> cnodes[refs[i][2]]]

\* C31: within each element the byte ranges of its content nodes, in child
\* order, tile the content buffer: the first starts at 0, each later one
\* starts where the one before it ended, start <= end <= buffer length for
\* each, and the last ends at the buffer length.
C31_RangesTile ==
  \A a \in 1..madeElems :
    LET cs == ContentSeq(a)
        n == Len(elems[a].rawContent)
    IN /\ \A i \in DOMAIN cs :
            /\ cs[i].start <= cs[i].end /\ cs[i].end <= n
            /\ cs[i].start = (IF i = 1 THEN 0 ELSE cs[i - 1].end)
       /\ (IF cs = <<>> THEN 0 ELSE cs[Len(cs)].end) = n

\* an element holds a text run, a CDATA section and a comment, in three
\* ranges of its buffer
C31_Witness ==
  \E a \in 1..madeElems :
    /\ Len(ContentSeq(a)) = 3
    /\ ContentSeq(a)[2].start > 0
    /\ ContentSeq(a)[3].nodeType = CommentNode
    /\ ContentSeq(a)[3].end > ContentSeq(a)[3].start

\* the seven cursor moves that report whether they moved
Moves ==
  {"MoveToParent", "MoveToChild", "MoveToFirst", "MoveToNext",
   "MoveToPrevious", "MoveToNextAttribute", "MoveTo"}

\* C32: a cursor move (MoveToParent, MoveToChild, MoveToFirst, MoveToNext,
\* MoveToPrevious, MoveToNextAttribute, MoveTo) that returns false leaves the
\* current node, the cached element and the attribute index as they were.
C32_FailedMoveKeepsCursor ==
  [][(nav # <<>> /\ nav' # <<>> /\ nav'[1].op \in Moves /\ nav'[1].ret = "false")
       => /\ nav'[1].cur.currNode = nav[1].cur.currNode
          /\ nav'[1].cur.currElement = nav[1].cur.currElement
          /\ nav'[1].cur.attributeIndex = nav[1].cur.attributeIndex]_vars

\* MoveToNextAttribute has failed on the last attribute of an element
C32_Witness ==
  /\ nav # <<>>
  /\ nav[1].op = "MoveToNextAttribute" /\ nav[1].ret = "false"
  /\ nav[1].cur.attributeIndex = 1

\* C33: after any sequence of cursor calls from the cursor Evaluate makes, the
\* attribute index is -1 or an index into the attributes of the cached
\* element; the cached element is the current node when that is an element
\* and nil when it is a content node; off -1 the current node is an element.
C33_CursorWellFormed ==
  nav # <<>> =>
    LET c == nav[1].cur IN
      /\ \/ c.attributeIndex = -1
         \/ /\ c.currElement # 0
            /\ c.attributeIndex \in 0..(Len(elems[c.currElement].Attributes) - 1)
      /\ IF IsERef(c.currNode) THEN c.currElement = c.currNode[2]
         ELSE c.currElement = 0
      /\ c.attributeIndex # -1 => IsERef(c.currNode)

\* the cursor has gone from an element to the content node after it
C33_Witness ==
  /\ nav # <<>>
  /\ nav[1].op = "MoveToNext" /\ nav[1].ret = "true"
  /\ ~IsERef(nav[1].cur.currNode)

\* the cursor has stepped onto the second attribute of an element below the
\* root of the evaluation
C33_WitnessAttribute ==
  /\ nav # <<>>
  /\ nav[1].op = "MoveToNextAttribute" /\ nav[1].ret = "true"
  /\ nav[1].cur.attributeIndex = 1
  /\ nav[1].cur.currElement # nav[1].cur.root

\* C34: MoveTo(other) succeeds, and copies the whole position of other, exactly
\* when other is a cursor of this kind with the same root; otherwise it fails
\* and the cursor is unchanged; the root of a cursor never changes.
C34_MoveTo ==
  /\ [][(nav # <<>> /\ nav' # <<>> /\ nav'[1].op = "MoveTo") =>
         LET other == nav'[1].arg IN
           IF IsElementNavigator(other) /\ other.root = nav[1].cur.root
           THEN /\ nav'[1].ret = "true"
                /\ nav'[1].cur.currNode = other.currNode
                /\ nav'[1].cur.currElement = other.currElement
                /\ nav'[1].cur.attributeIndex = other.attributeIndex
           ELSE nav'[1].ret = "false" /\ nav'[1].cur = nav[1].cur]_vars
  /\ [][(nav # <<>> /\ nav' # <<>>) => nav'[1].cur.root = nav[1].cur.root]_vars

\* MoveTo has failed on a cursor that had moved off its root, given the
\* cursor of an Evaluate call on another element of the same tree
C34_Witness ==
  /\ nav # <<>>
  /\ nav[1].op = "MoveTo" /\ nav[1].ret = "false"
  /\ nav[1].cur.currNode # ERef(nav[1].cur.root)
  /\ IsElementNavigator(nav[1].arg)
  /\ nav[1].arg.root # nav[1].cur.root
  /\ elems[nav[1].arg.root].parent = nav[1].cur.root

\* MoveTo has taken the position of a copy that stood on an attribute
C34_WitnessCopied ==
  /\ nav # <<>>
  /\ nav[1].op = "MoveTo" /\ nav[1].ret = "true"
  /\ nav[1].cur.attributeIndex = 1

\* C35: NodeType answers attribute when the attribute index is not -1;
\* otherwise the kind of the content node the cursor is on; otherwise root
\* exactly when the current element is the root of the cursor and has no
\* parent; otherwise element.
C35_NodeType ==
  (nav # <<>> /\ nav[1].op = "NodeType") =>
    LET c == nav[1].cur IN
      nav[1].ret =
        (IF c.attributeIndex # -1 THEN "attribute"
         ELSE IF ~IsERef(c.currNode) THEN cnodes[c.currNode[2]].nodeType
         ELSE IF c.currNode = ERef(c.root) /\ elems[c.root].parent = 0
         THEN "root"
         ELSE "element")

\* NodeType has answered element on the root of an evaluation that was made
\* on an element with a parent
C35_Witness ==
  /\ nav # <<>>
  /\ nav[1].op = "NodeType" /\ nav[1].ret = "element"
  /\ nav[1].cur.currNode = ERef(nav[1].cur.root)

\* C36: MoveToParent from an attribute always succeeds and lands on the
\* element that owns the attribute (index -1, current node unchanged) without
\* following the parent pointer; from an element or a content node it follows
\* the parent pointer, and fails when that is nil.
C36_MoveToParent ==
  [][MoveToParentCall =>
       LET c == nav[1].cur
           d == nav'[1].cur
           parent == ParentOf(elems, cnodes, c.currNode)
       IN IF c.attributeIndex # -1
          THEN /\ nav'[1].ret = "true"
               /\ d = [c EXCEPT !.attributeIndex = -1]
          ELSE IF parent # 0
          THEN /\ nav'[1].ret = "true"
               /\ d = [c EXCEPT !.currNode = ERef(parent),
                                !.currElement = parent]
          ELSE nav'[1].ret = "false" /\ d = c]_vars

\* MoveToParent has left an attribute of an element that has a parent, and
\* the cursor is on that element, not on its parent
C36_Witness ==
  /\ nav # <<>>
  /\ nav[1].op = "MoveToParent" /\ nav[1].ret = "true"
  /\ nav[1].cur.attributeIndex = -1
  /\ IsERef(nav[1].cur.currNode)
  /\ elems[nav[1].cur.currElement].parent # 0
  /\ Len(elems[nav[1].cur.currElement].children) = 0

\* C37: the cancellation is observed only between lexical events: once it is
\* raised no further event is handled, at most one further element is
\* enqueued, the one whose send was already in progress, and the parse loop,
\* when it is not held in that send, goes on to stop and close the channel.
C37_CancelBetweenEvents ==
  /\ [][(cancelled /\ pos' # pos) => (pc = "loop" /\ pc' = "ret")]_vars
  /\ [][(cancelled /\ Len(chanBuf') > Len(chanBuf))
          => (pc = "send" /\ sentAfterCancel = 0 /\ sentAfterCancel' = 1)]_vars
  /\ [][cancelled => (stack' = stack /\ closeLog' = closeLog)]_vars
  /\ (cancelled /\ pc = "loop") ~> (pc = "done")

\* the cancellation came during a send; that one element was enqueued, and
\* the producer then stopped on the cancellation, with input left unread
C37_Witness ==
  /\ sentAfterCancel = 1 /\ pc = "done"
  /\ stopCause = "cancel" /\ pos <= srcLen

\* C38: the channel is closed exactly once, by the producer task, only after
\* the parse loop has returned, and no send is attempted after the close.
C38_ClosedOnceAfterParse ==
  /\ [](chanClosed <= 1 /\ tasks <= 1)
  /\ [][chanClosed' # chanClosed
          => (pc = "ret" /\ pc' = "done" /\ tasks = 1 /\ chanClosed = 0
              /\ pending = NoPending)]_vars
  /\ [](chanClosed = 1 => (pc = "done" /\ pending = NoPending))
  /\ [][chanClosed = 1 => (chanClosed' = 1 /\ Len(chanBuf') <= Len(chanBuf))]_vars
  /\ [](pc = "done" => chanClosed = 1)

\* the channel is closed after a parse that sent elements, Stream was called
\* twice, and the consumer has drained the closed channel
C38_Witness ==
  /\ chanClosed = 1 /\ calls = 2
  /\ Len(recvLog) >= 2 /\ chanBuf = <<>>

\* the first piece of f that is not a well-formed attribute (Len(f) + 1 when
\* there is none), and whether the scan is to stop there: the value does not
\* begin with a quote, or no '=' is left in the bytes
FirstBad(f) ==
  IF \A i \in DOMAIN f : f[i].kind = "attr" THEN Len(f) + 1
  ELSE CHOOSE i \in DOMAIN f :
         f[i].kind # "attr" /\ \A j \in 1..(i - 1) : f[j].kind = "attr"
StopsScan(f) ==
  LET k == FirstBad(f) IN
    /\ k <= Len(f)
    /\ \/ f[k].kind \in {"unquoted", "noValue"}
       \/ f[k].kind = "noEq" /\ \A j \in k..Len(f) : f[j].kind = "noEq"
ParentEntries(s) ==
  IF gparent[s] = 0 THEN {} ELSE EntriesOf(MapOf(gparent[s]))

\* the element of every start tag is created and linked, whatever the bytes
ScanCreatesElement(s) ==
  /\ elems[gptr[s]].Name = gname[s]
  /\ gparent[s] # 0 =>
       /\ \E i \in DOMAIN elems[gptr[gparent[s]]].children :
            elems[gptr[gparent[s]]].children[i] = ERef(gptr[s])
       /\ s \notin Emitted => elems[gptr[s]].parent = gptr[gparent[s]]

\* the attributes spelt before the first malformed piece are kept in order
ScanKeepsPrefix(s) ==
  LET k == FirstBad(frag) IN
    /\ Len(elems[gptr[s]].Attributes) >= k - 1
    /\ SubSeq(elems[gptr[s]].Attributes, 1, k - 1) = GoodPrefix(frag)

\* C39, the attribute scan: the scan of every byte sequence ends and the parse
\* goes on; a fragment with no '=' or a value that does not begin with a quote
\* stops it: the attributes recognised before are kept in order, duplicates
\* included, none after it is recorded, and the element is created and linked.
C39_AttributeScanStops ==
  /\ [](\A s \in Serials :
          /\ ScanCreatesElement(s)
          /\ ScanKeepsPrefix(s)
          /\ (StopsScan(frag) \/ FirstBad(frag) > Len(frag))
               => elems[gptr[s]].Attributes = GoodPrefix(frag))
  /\ [][nextSer' # nextSer => pc' \in {"loop", "send"}]_vars

\* C39: attribute scanning and namespace scanning end for every byte sequence
\* and never fail the parse; a fragment with no '=' or a value that does not
\* begin with a quote stops the scan: what was recognised before it is kept in
\* order, nothing after it is recorded, the element is created and linked.
C39_ScansStop ==
  \A s \in Serials :
    /\ ScanCreatesElement(s)
    /\ ScanKeepsPrefix(s)
    /\ (StopsScan(frag) \/ FirstBad(frag) > Len(frag)) =>
         /\ elems[gptr[s]].Attributes = GoodPrefix(frag)
         /\ EntriesOf(MapOf(s)) = Overlay(ParentEntries(s), DeclsOf(GoodPrefix(frag)))

====
